---- MODULE Spec2Model ----
(***************************************************************************)
(* A model of the MPX template pipeline: the Lexer and MpxTemplateParser   *)
(* (mpxTemplateParser.ts) as a step machine over a character sequence, and *)
(* the MpxToVueConverter (convertToVue.ts).                                *)
(*                                                                         *)
(* Strings are sequences of one-character strings, so that slicing,        *)
(* trimming, prefix tests and re-parsing of emitted text are computed      *)
(* rather than assumed.  A null or empty string result is <<>>.            *)
(***************************************************************************)
EXTENDS Integers, Sequences, FiniteSets, TLC

VARIABLES
    input,       \* Lexer.input
    lexer,       \* Lexer.position / line / column
    errors,      \* MpxTemplateParser.errors
    warnings,    \* MpxTemplateParser.warnings
    ast,         \* local `ast` of parse(): the top-level forest
    pc,          \* control position of the parser
    stack,       \* elements whose parseChildren loop is active, outermost first
    startPos,    \* local `startPos` of the construct being parsed
    tagName,     \* local `tagName` of parseElement
    attributes,  \* local `attributes` of parseAttributes
    name,        \* local `name` of parseAttribute
    quote,       \* parameter `quote` of parseQuotedString
    acc,         \* local `text` / `content` / `value` being accumulated
    node         \* local `node` / `child`: what the last parseNode returned

VARIABLES
    output,      \* MpxToVueConverter.output
    indentLevel, \* MpxToVueConverter.indentLevel
    walk,        \* active traverseNode calls, outermost first
    nextRoot,    \* index of the for loop of ASTTraverser.traverse
    cpc,         \* control position of convertToVue
    converted,   \* what convertToVue returned
    round,       \* 1 while the template is parsed, 2 while its conversion is
    first,       \* the forest of round 1, kept for comparison in round 2
    fn,          \* the converter function applied on its own
    arg,         \* its arguments
    res          \* what it returned

VARIABLES
    visitor,     \* the visitor of a traverse call: which callbacks it has
    calls,       \* the callback invocations that visitor has received
    annotated,   \* what addRef returned
    serialized,  \* what astToTemplate returned
    apc,         \* control position of the annotator's caller
    parked,      \* a second parseMpxTemplate call, while it is not running
    running,     \* which of the two calls owns the variables above
    returned     \* the results of the two calls, once both have returned

parserVars == <<input, lexer, errors, warnings, ast, pc, stack, startPos,
                tagName, attributes, name, quote, acc, node>>

-----------------------------------------------------------------------------
(* Bounds of the model *)

\* length of the free character suffix of an input
MaxLen == 3
\* number of tag-level tokens of an input
MaxTags == 5
\* number of attributes written on the tag of an input
MaxAttrs == 2

-----------------------------------------------------------------------------
(* Characters *)

Lower == {"a","b","c","d","e","f","g","h","i","j","k","l","m",
          "n","o","p","q","r","s","t","u","v","w","x","y","z"}
Upper == {"A","B","C","D","E","F","G","H","I","J","K","L","M",
          "N","O","P","Q","R","S","T","U","V","W","X","Y","Z"}
Digits == {"0","1","2","3","4","5","6","7","8","9"}
Punct == {"<", ">", "/", "!", "-", "_", "=", "\"", "'", "\\", ":", "@", ".",
          "{", "}", "(", ")", "[", "]", ",", " ", "\n", "\t", "\r"}
AllChars == Lower \cup Upper \cup Digits \cup Punct

\* /\s/ restricted to the characters of the model
IsWhitespace(c) == c \in {" ", "\n", "\t", "\r"}
\* /[a-zA-Z0-9\-_]/
TagNameChars == Lower \cup Upper \cup Digits \cup {"-", "_"}
\* /[a-zA-Z0-9\-_:@]/
AttrNameChars == TagNameChars \cup {":", "@"}
\* the complement of /[\s>\/]/
UnquotedValueChars == {c \in AllChars : ~IsWhitespace(c) /\ c \notin {">", "/"}}

-----------------------------------------------------------------------------
(* String helpers (JavaScript String methods on character sequences) *)

\* s.startsWith(p)
StartsWith(s, p) == Len(s) >= Len(p) /\ SubSeq(s, 1, Len(p)) = p
\* s.endsWith(p)
EndsWith(s, p) == Len(s) >= Len(p) /\ SubSeq(s, Len(s) - Len(p) + 1, Len(s)) = p
\* s.substring(n)
Substring(s, n) == SubSeq(s, n + 1, Len(s))
\* s.slice(a, -b)
SliceNeg(s, a, b) == SubSeq(s, a + 1, Len(s) - b)

RECURSIVE TrimStart(_)
TrimStart(s) ==
    IF s # <<>> /\ IsWhitespace(Head(s)) THEN TrimStart(Tail(s)) ELSE s

RECURSIVE TrimEnd(_)
TrimEnd(s) ==
    IF s # <<>> /\ IsWhitespace(s[Len(s)])
    THEN TrimEnd(SubSeq(s, 1, Len(s) - 1)) ELSE s

\* s.trim()
Trim(s) == TrimEnd(TrimStart(s))

\* s.includes(c) for a one-character c
Includes(s, c) == \E i \in 1..Len(s) : s[i] = c

\* s.split(c) for a one-character separator c
RECURSIVE SplitFrom(_, _, _, _)
SplitFrom(s, c, i, part) ==
    IF i > Len(s) THEN <<part>>
    ELSE IF s[i] = c THEN <<part>> \o SplitFrom(s, c, i + 1, <<>>)
    ELSE SplitFrom(s, c, i + 1, Append(part, s[i]))
Split(s, c) == SplitFrom(s, c, 1, <<>>)

\* concatenation of a sequence of strings
RECURSIVE Concat(_)
Concat(ss) == IF ss = <<>> THEN <<>> ELSE Head(ss) \o Concat(Tail(ss))

-----------------------------------------------------------------------------
(* Lexer *)

NewLexer == [position |-> 0, line |-> 1, column |-> 1]

current(lx) ==
    IF lx.position < Len(input) THEN input[lx.position + 1] ELSE ""

peek(lx, offset) ==
    IF lx.position + offset < Len(input)
    THEN input[lx.position + offset + 1] ELSE ""

\* the lexer after advance(); the character returned is current(lx)
advance(lx) ==
    [position |-> lx.position + 1,
     line     |-> IF current(lx) = "\n" THEN lx.line + 1 ELSE lx.line,
     column   |-> IF current(lx) = "\n" THEN 1 ELSE lx.column + 1]

isEOF(lx) == lx.position >= Len(input)

RECURSIVE skipWhitespace(_)
skipWhitespace(lx) ==
    IF IsWhitespace(current(lx)) THEN skipWhitespace(advance(lx)) ELSE lx

\* getPosition() is the lexer record itself

-----------------------------------------------------------------------------
(* Parser: values *)

NoPosition == [start |-> 0, end |-> 0, line |-> 0, column |-> 0]
NoAttributes == [props |-> <<>>, directives |-> <<>>, attributesAll |-> <<>>]

\* the null returned by parseElement / parseText
NullNode == [type |-> "null", name |-> <<>>, attributes |-> NoAttributes,
             children |-> <<>>, content |-> <<>>, position |-> NoPosition]

\* a span as it would be with its two ends exchanged
Span_Swapped(from, to) == [start |-> to.position, end |-> from.position,
                           line |-> from.line, column |-> from.column]

Span(from, to) == [start |-> from.position, end |-> to.position,
                   line |-> from.line, column |-> from.column]

TextNode(content, from, to) ==
    [type |-> "text", name |-> <<>>, attributes |-> NoAttributes,
     children |-> <<>>, content |-> content, position |-> Span(from, to)]

CommentNode(content, from, to) ==
    [type |-> "comment", name |-> <<>>, attributes |-> NoAttributes,
     children |-> <<>>, content |-> content, position |-> Span(from, to)]

ElementNode(tag, attrs, from, to) ==
    [type |-> "element", name |-> tag, attributes |-> attrs,
     children |-> <<>>, content |-> <<>>, position |-> Span(from, to)]

\* addError as it would be if it took the position where the input begins
addError_AtOrigin(lx, message, expected, found) ==
    Append(errors, [line |-> 1, column |-> 1,
                    message |-> message, expected |-> expected, found |-> found])

\* addError: the message with the line and column of the cursor.  The
\* messages are "expected tag name" for 期望标签名, "expected >" for 期望 ">"
\* and "mismatched end tag" for 不匹配的结束标签 (with the two tag names).
addError(lx, message, expected, found) ==
    Append(errors, [line |-> lx.line, column |-> lx.column,
                    message |-> message, expected |-> expected, found |-> found])

\* the while loops of parseTagName, parseAttributeName and of the unquoted
\* branch of parseAttributeValue: read characters of `chars`
RECURSIVE ReadWhile(_, _, _)
ReadWhile(lx, chars, text) ==
    IF ~isEOF(lx) /\ current(lx) \in chars
    THEN ReadWhile(advance(lx), chars, Append(text, current(lx)))
    ELSE [lexer |-> lx, text |-> text]

parseTagName(lx) == ReadWhile(lx, TagNameChars, <<>>)
parseAttributeName(lx) == ReadWhile(lx, AttrNameChars, <<>>)
parseUnquotedValue(lx) == ReadWhile(lx, UnquotedValueChars, <<>>)

isDirectiveName(n) ==
    \/ StartsWith(n, <<"w", "x", ":">>)
    \/ StartsWith(n, <<"@">>)
    \/ StartsWith(n, <<"b", "i", "n", "d">>)
    \/ StartsWith(n, <<"c", "a", "t", "c", "h">>)

NoDirective == [name |-> <<>>, value |-> <<>>, modifiers |-> <<>>]

parseDirective(n, value) ==
    IF Includes(n, ".")
    THEN [name |-> Head(Split(n, ".")), value |-> value,
          modifiers |-> Tail(Split(n, "."))]
    ELSE [name |-> n, value |-> value, modifiers |-> <<>>]

\* the Attribute returned by parseAttribute
MakeAttribute(n, value) ==
    [name |-> n, value |-> value, isDirective |-> isDirectiveName(n),
     directive |-> IF isDirectiveName(n) THEN parseDirective(n, value)
                   ELSE NoDirective]

-----------------------------------------------------------------------------
(* JavaScript objects used as maps: a sequence of [key, value] entries in   *)
(* property order.  Integer-like keys come first in ascending order, other  *)
(* keys in insertion order; assigning a string to __proto__ adds no entry.  *)

ProtoKey == <<"_", "_", "p", "r", "o", "t", "o", "_", "_">>

DigitSeq == <<"0","1","2","3","4","5","6","7","8","9">>
DigitVal(c) == CHOOSE i \in 1..10 : DigitSeq[i] = c

IsArrayIndex(k) ==
    /\ k # <<>>
    /\ \A i \in 1..Len(k) : k[i] \in Digits
    /\ (Len(k) = 1 \/ k[1] # "0")

RECURSIVE NumLess(_, _)
NumLess(a, b) ==
    IF Len(a) # Len(b) THEN Len(a) < Len(b)
    ELSE IF a = <<>> THEN FALSE
    ELSE IF Head(a) # Head(b) THEN DigitVal(Head(a)) < DigitVal(Head(b))
    ELSE NumLess(Tail(a), Tail(b))

ObjHas(obj, k) == \E i \in 1..Len(obj) : obj[i].key = k
ObjIndex(obj, k) == CHOOSE i \in 1..Len(obj) : obj[i].key = k
ObjGet(obj, k) == obj[ObjIndex(obj, k)].value

\* number of entries that stay in front of a new integer-like key k
IndexSlot(obj, k) ==
    Cardinality({i \in 1..Len(obj) :
                    IsArrayIndex(obj[i].key) /\ NumLess(obj[i].key, k)})

\* obj[k] = v as it would be if every assignment made a new entry
ObjSet_NewEntry(obj, k, v) == Append(obj, [key |-> k, value |-> v])

\* obj[k] = v
ObjSet(obj, k, v) ==
    IF k = ProtoKey THEN obj
    ELSE IF ObjHas(obj, k)
    THEN [obj EXCEPT ![ObjIndex(obj, k)].value = v]
    ELSE IF IsArrayIndex(k)
    THEN SubSeq(obj, 1, IndexSlot(obj, k)) \o <<[key |-> k, value |-> v]>>
         \o SubSeq(obj, IndexSlot(obj, k) + 1, Len(obj))
    ELSE Append(obj, [key |-> k, value |-> v])

RECURSIVE ProcessFrom(_, _, _)
ProcessFrom(attrs, i, result) ==
    IF i > Len(attrs) THEN result
    ELSE IF attrs[i].isDirective
    THEN ProcessFrom(attrs, i + 1,
            [result EXCEPT !.directives =
                ObjSet(@, attrs[i].directive.name,
                       [value |-> attrs[i].directive.value,
                        modifiers |-> attrs[i].directive.modifiers])])
    ELSE ProcessFrom(attrs, i + 1,
            [result EXCEPT !.props = ObjSet(@, attrs[i].name, attrs[i].value)])

\* processAttributes; an absent props / directives object is the empty map
processAttributes(attrs) ==
    ProcessFrom(attrs, 1, [props |-> <<>>, directives |-> <<>>,
                           attributesAll |-> attrs])

-----------------------------------------------------------------------------
(* Parser: inputs *)

\* the characters of the free suffix: markup punctuation, a name character,
\* a whitespace character (the newline, which also moves the line counter)
Alphabet == {"<", ">", "/", "!", "-", "=", "\"", "\\", "a", "\n"}

\* what comes before the free suffix: nothing, an open comment, an open
\* element, an open quoted attribute value
Prefixes ==
    { <<>>,
      <<"<", "!", "-", "-">>,
      <<"<", "b", ">">>,
      <<"<", "a", " ", "a", "=", "\"">>,
      <<"<", "a", " ", "a", "=">>,
      <<"<", "a">> }

StringsUpTo(n) == UNION {[1..k -> Alphabet] : k \in 0..n}

\* whole tags and a text run, for nesting
TagTokens ==
    { <<"<", "a", ">">>, <<"<", "b", ">">>,
      <<"<", "/", "a", ">">>, <<"<", "/", "b", ">">>,
      <<"t", " ">> }

TagSequences(n) == UNION {[1..k -> TagTokens] : k \in 0..n}

\* attributes as written on a tag: plain ones (one name twice), directives
\* of each prefix, a directive with modifiers, the name __proto__
AttributeTokens ==
    { <<" ","b","=","\"","1","\"">>,  \* b="1"
      <<" ","b","=","\"","2","\"">>,  \* b="2"
      <<" ","w","x",":","i","f","=","\"","c","\"">>,  \* wx:if="c"
      <<" ","@","t","a","p">>,  \* @tap
      <<" ","b","i","n","d","t","a","p",".","s","t","o","p","=","\"","h","\"">>,  \* bindtap.stop="h"
      <<" ","_","_","p","r","o","t","o","_","_","=","\"","x","\"">>,  \* __proto__="x"
      <<" ","c","a","t","c","h","t","a","p","=","\"","g","\"">>,  \* catchtap="g"
      <<" ","w","x",":","r","e","f","=","\"","r","\"">> }  \* wx:ref="r"

AttributeSequences(n) == UNION {[1..k -> AttributeTokens] : k \in 0..n}

\* an open tag of its own, and a self-closing one
TagEnds == {<<">">>, <<"/", ">">>}

\* one tag with attributes
AttributeInputs ==
    {<<"<", "a">> \o Concat(ts) \o e :
        ts \in AttributeSequences(MaxAttrs), e \in TagEnds}

Inputs ==
    {p \o s : p \in Prefixes, s \in StringsUpTo(MaxLen)}
    \cup {Concat(ts) : ts \in TagSequences(MaxTags)}
    \cup AttributeInputs

-----------------------------------------------------------------------------
(* Parser: the step machine.                                                *)
(* pc = "loop"    head of the while loop of parse() (stack empty) or of     *)
(*                parseChildren() of the innermost open element             *)
(* pc = "text"    head of the while loop of parseText                       *)
(* pc = "comment" head of the while loop of parseComment                    *)
(* pc = "attrs"   head of the while loop of parseAttributes                 *)
(* pc = "quoted"  head of the while loop of parseQuotedString               *)
(* pc = "tagend"  parseElement after parseAttributes has returned           *)
(* pc = "done"    parse() has returned {ast, errors, warnings}              *)

\* the variables of the other components
notParserVars == <<output, indentLevel, walk, nextRoot, cpc, converted, round,
                   first, fn, arg, res, visitor, calls, annotated, serialized,
                   apc, parked, running, returned>>

ParserInit ==
    /\ input \in Inputs
    /\ lexer = NewLexer
    /\ errors = <<>>
    /\ warnings = <<>>
    /\ ast = <<>>
    /\ pc = "loop"
    /\ stack = <<>>
    /\ startPos = NewLexer
    /\ tagName = <<>>
    /\ attributes = <<>>
    /\ name = <<>>
    /\ quote = ""
    /\ acc = <<>>
    /\ node = NullNode

ResetLocals ==
    /\ startPos' = NewLexer
    /\ tagName' = <<>>
    /\ attributes' = <<>>
    /\ name' = <<>>
    /\ quote' = ""
    /\ acc' = <<>>

Pop(stk) == SubSeq(stk, 1, Len(stk) - 1)

\* parseNode has returned n to the loop whose open elements are stk:
\* `if (node) ast.push(node)` in parse, `if (child) element.children.push(child)`
\* in parseChildren
Deliver(stk, n) ==
    /\ node' = n
    /\ pc' = "loop"
    /\ IF n = NullNode THEN ast' = ast /\ stack' = stk
       ELSE IF stk = <<>> THEN ast' = Append(ast, n) /\ stack' = stk
       ELSE /\ ast' = ast
            /\ stack' = [stk EXCEPT ![Len(stk)].children = Append(@, n)]

\* the cursor after the skipWhitespace that begins an iteration of the loop
\* of parse, of parseChildren and of parseAttributes
LoopCursor == skipWhitespace(lexer)
\* the element whose parseChildren loop is running
OpenElement == stack[Len(stack)]

\* parse(): end-of-input at top level
AtTopEOF == pc = "loop" /\ stack = <<>> /\ isEOF(LoopCursor)

\* parse(): the loop ends and the result is returned
Finish ==
    /\ AtTopEOF
    /\ lexer' = LoopCursor
    /\ pc' = "done"
    /\ UNCHANGED <<input, errors, warnings, ast, stack, startPos, tagName,
                   attributes, name, quote, acc, node>>
    /\ UNCHANGED notParserVars

\* parseChildren: end-of-input inside an open element
AtOpenElementEOF == pc = "loop" /\ stack # <<>> /\ isEOF(LoopCursor)

\* parseChildren as it would be if an element open at end-of-input were an
\* error and were dropped
ChildrenEOF_Dropped ==
    /\ AtOpenElementEOF
    /\ lexer' = LoopCursor
    /\ errors' = addError(LoopCursor, "missing close tag", <<>>, <<>>)
    /\ Deliver(Pop(stack), NullNode)
    /\ UNCHANGED <<input, warnings, startPos, tagName, attributes, name,
                   quote, acc>>
    /\ UNCHANGED notParserVars

\* parseChildren: the loop ends at end-of-input; parseElement returns the
\* element to the loop of its parent
ChildrenEOF ==
    /\ AtOpenElementEOF
    /\ lexer' = LoopCursor
    /\ Deliver(Pop(stack), OpenElement)
    /\ UNCHANGED <<input, errors, warnings, startPos, tagName, attributes,
                   name, quote, acc>>
    /\ UNCHANGED notParserVars

\* parseEndTag from the cursor lx, which is at "</"
parseEndTag(lx) ==
    LET r == parseTagName(advance(advance(lx)))
        l == skipWhitespace(r.lexer)
    IN [lexer |-> IF current(l) = ">" THEN advance(l) ELSE l, text |-> r.text]

AtEndTag(lx) == current(lx) = "<" /\ peek(lx, 1) = "/"

\* parseChildren: a close tag with the name of the open element
AtMatchingEndTag ==
    /\ pc = "loop" /\ stack # <<>>
    /\ ~isEOF(LoopCursor) /\ AtEndTag(LoopCursor)
    /\ parseEndTag(LoopCursor).text = OpenElement.name

MatchingEndTag ==
    /\ AtMatchingEndTag
    /\ lexer' = parseEndTag(LoopCursor).lexer
    /\ errors' = errors
    /\ Deliver(Pop(stack), OpenElement)
    /\ UNCHANGED <<input, warnings, startPos, tagName, attributes, name,
                   quote, acc>>
    /\ UNCHANGED notParserVars

\* parseChildren: a close tag with another name (or none)
AtMismatch ==
    /\ pc = "loop" /\ stack # <<>>
    /\ ~isEOF(LoopCursor) /\ AtEndTag(LoopCursor)
    /\ parseEndTag(LoopCursor).text # OpenElement.name

\* MismatchedEndTag as it would be if the loop reported the close tag and
\* went on collecting children of the same element
MismatchedEndTag_Resync ==
    /\ AtMismatch
    /\ lexer' = parseEndTag(LoopCursor).lexer
    /\ errors' = addError(parseEndTag(LoopCursor).lexer, "mismatched end tag",
                          OpenElement.name, parseEndTag(LoopCursor).text)
    /\ UNCHANGED <<input, warnings, ast, pc, stack, startPos, tagName,
                   attributes, name, quote, acc, node>>
    /\ UNCHANGED notParserVars

MismatchedEndTag ==
    /\ AtMismatch
    /\ lexer' = parseEndTag(LoopCursor).lexer
    /\ errors' = addError(parseEndTag(LoopCursor).lexer, "mismatched end tag",
                          OpenElement.name, parseEndTag(LoopCursor).text)
    /\ Deliver(Pop(stack), OpenElement)
    /\ UNCHANGED <<input, warnings, startPos, tagName, attributes, name,
                   quote, acc>>
    /\ UNCHANGED notParserVars

\* parseNode reaches parseElement: the cursor is at "<", and parseChildren
\* has not taken it as a close tag
AtElement ==
    /\ pc = "loop"
    /\ ~isEOF(LoopCursor) /\ current(LoopCursor) = "<"
    /\ (stack # <<>> => ~AtEndTag(LoopCursor))

\* the cursor of parseElement after consumeChar("<")
AfterLt == advance(LoopCursor)

IsCommentStart(lx) ==
    current(lx) = "!" /\ peek(lx, 1) = "-" /\ peek(lx, 2) = "-"

AtCommentStart == AtElement /\ IsCommentStart(AfterLt)

\* parseElement: "<!--" opens a comment; parseComment takes its startPos
\* after the "<" and skips "!--"
StartComment ==
    /\ AtCommentStart
    /\ startPos' = AfterLt
    /\ lexer' = advance(advance(advance(AfterLt)))
    /\ acc' = <<>>
    /\ pc' = "comment"
    /\ UNCHANGED <<input, errors, warnings, ast, stack, tagName, attributes,
                   name, quote, node>>
    /\ UNCHANGED notParserVars

\* parseElement: "</" where no close tag is awaited
AtDanglingEndTag ==
    AtElement /\ ~IsCommentStart(AfterLt) /\ current(AfterLt) = "/"

\* parseElement as it would be if it skipped the whole close tag
DanglingEndTag_Skipped ==
    /\ AtDanglingEndTag
    /\ lexer' = parseEndTag(LoopCursor).lexer
    /\ errors' = errors
    /\ Deliver(stack, NullNode)
    /\ UNCHANGED <<input, warnings, startPos, tagName, attributes, name,
                   quote, acc>>
    /\ UNCHANGED notParserVars

\* parseElement returns null there, and records nothing
DanglingEndTag ==
    /\ AtDanglingEndTag
    /\ lexer' = AfterLt
    /\ errors' = errors
    /\ Deliver(stack, NullNode)
    /\ UNCHANGED <<input, warnings, startPos, tagName, attributes, name,
                   quote, acc>>
    /\ UNCHANGED notParserVars

\* parseElement: no tag name after "<"
AtMissingTagName ==
    /\ AtElement /\ ~IsCommentStart(AfterLt) /\ current(AfterLt) # "/"
    /\ parseTagName(AfterLt).text = <<>>

\* parseElement records an error and returns null
MissingTagName ==
    /\ AtMissingTagName
    /\ lexer' = AfterLt
    /\ errors' = addError(AfterLt, "expected tag name", <<>>, <<>>)
    /\ Deliver(stack, NullNode)
    /\ UNCHANGED <<input, warnings, startPos, tagName, attributes, name,
                   quote, acc>>
    /\ UNCHANGED notParserVars

\* parseElement: "<" and a tag name
AtTagStart ==
    /\ AtElement /\ ~IsCommentStart(AfterLt) /\ current(AfterLt) # "/"
    /\ parseTagName(AfterLt).text # <<>>

\* parseAttributes begins
StartTag ==
    /\ AtTagStart
    /\ startPos' = LoopCursor
    /\ tagName' = parseTagName(AfterLt).text
    /\ lexer' = parseTagName(AfterLt).lexer
    /\ attributes' = <<>>
    /\ pc' = "attrs"
    /\ UNCHANGED <<input, errors, warnings, ast, stack, name, quote, acc, node>>
    /\ UNCHANGED notParserVars

\* parseNode reaches parseText
AtText == pc = "loop" /\ ~isEOF(LoopCursor) /\ current(LoopCursor) # "<"

\* parseText as it would begin if the loop had not skipped the white space
\* before it
StartText_FromRunStart ==
    /\ AtText
    /\ startPos' = lexer
    /\ lexer' = lexer
    /\ acc' = <<>>
    /\ pc' = "text"
    /\ UNCHANGED <<input, errors, warnings, ast, stack, tagName, attributes,
                   name, quote, node>>
    /\ UNCHANGED notParserVars

StartText ==
    /\ AtText
    /\ startPos' = LoopCursor
    /\ lexer' = LoopCursor
    /\ acc' = <<>>
    /\ pc' = "text"
    /\ UNCHANGED <<input, errors, warnings, ast, stack, tagName, attributes,
                   name, quote, node>>
    /\ UNCHANGED notParserVars

InText == pc = "text" /\ ~isEOF(lexer) /\ current(lexer) # "<"

\* parseText: one iteration of the loop
TextChar ==
    /\ InText
    /\ acc' = Append(acc, current(lexer))
    /\ lexer' = advance(lexer)
    /\ UNCHANGED <<input, errors, warnings, ast, pc, stack, startPos, tagName,
                   attributes, name, quote, node>>
    /\ UNCHANGED notParserVars

AtTextEnd == pc = "text" /\ (isEOF(lexer) \/ current(lexer) = "<")

\* parseText: the loop ends; a Text node if the trimmed text is not empty
TextEnd ==
    /\ AtTextEnd
    /\ Deliver(stack, IF Trim(acc) # <<>> THEN TextNode(acc, startPos, lexer)
                      ELSE NullNode)
    /\ ResetLocals
    /\ UNCHANGED <<input, lexer, errors, warnings>>
    /\ UNCHANGED notParserVars

IsCommentEnd(lx) ==
    current(lx) = "-" /\ peek(lx, 1) = "-" /\ peek(lx, 2) = ">"

InComment == pc = "comment" /\ ~isEOF(lexer) /\ ~IsCommentEnd(lexer)

\* parseComment: one iteration of the loop that adds a character
CommentChar ==
    /\ InComment
    /\ acc' = Append(acc, current(lexer))
    /\ lexer' = advance(lexer)
    /\ UNCHANGED <<input, errors, warnings, ast, pc, stack, startPos, tagName,
                   attributes, name, quote, node>>
    /\ UNCHANGED notParserVars

AtCommentClose == pc = "comment" /\ ~isEOF(lexer) /\ IsCommentEnd(lexer)

\* parseComment: "-->" is skipped and the loop is left
CommentClose ==
    /\ AtCommentClose
    /\ lexer' = advance(advance(advance(lexer)))
    /\ Deliver(stack, CommentNode(acc, startPos,
                                  advance(advance(advance(lexer)))))
    /\ ResetLocals
    /\ UNCHANGED <<input, errors, warnings>>
    /\ UNCHANGED notParserVars

AtOpenCommentEOF == pc = "comment" /\ isEOF(lexer)

\* parseComment as it would be if the end-of-input were recorded as an error
CommentEOF_Recorded ==
    /\ AtOpenCommentEOF
    /\ Deliver(stack, CommentNode(acc, startPos, lexer))
    /\ ResetLocals
    /\ errors' = addError(lexer, "unterminated comment", <<>>, <<>>)
    /\ UNCHANGED <<input, lexer, warnings>>
    /\ UNCHANGED notParserVars

\* parseComment: the loop ends at end-of-input
CommentEOF ==
    /\ AtOpenCommentEOF
    /\ Deliver(stack, CommentNode(acc, startPos, lexer))
    /\ ResetLocals
    /\ UNCHANGED <<input, lexer, errors, warnings>>
    /\ UNCHANGED notParserVars

\* parseAttributes: the loop is left: at end-of-input, at ">" or "/", or
\* where parseAttribute finds no attribute name and returns null
AtAttrsEnd ==
    /\ pc = "attrs"
    /\ \/ isEOF(lexer)
       \/ current(LoopCursor) \in {">", "/"}
       \/ parseAttributeName(LoopCursor).text = <<>>

AttrsEnd ==
    /\ AtAttrsEnd
    /\ lexer' = LoopCursor
    /\ pc' = "tagend"
    /\ UNCHANGED <<input, errors, warnings, ast, stack, startPos, tagName,
                   attributes, name, quote, acc, node>>
    /\ UNCHANGED notParserVars

\* parseAttributes goes on to parseAttribute, which reads a name
AtAttribute ==
    /\ pc = "attrs"
    /\ ~isEOF(lexer)
    /\ current(LoopCursor) \notin {">", "/"}
    /\ parseAttributeName(LoopCursor).text # <<>>

\* parseAttribute: the cursor after the name and the whitespace behind it
AfterName == skipWhitespace(parseAttributeName(LoopCursor).lexer)
\* parseAttribute: the cursor after "=" and the whitespace behind it
AfterEquals == skipWhitespace(advance(AfterName))

AtAttrNoValue == AtAttribute /\ current(AfterName) # "="

\* parseAttribute: a name without "=": the value is ""
AttrNoValue ==
    /\ AtAttrNoValue
    /\ attributes' = Append(attributes,
            MakeAttribute(parseAttributeName(LoopCursor).text, <<>>))
    /\ lexer' = AfterName
    /\ UNCHANGED <<input, errors, warnings, ast, pc, stack, startPos, tagName,
                   name, quote, acc, node>>
    /\ UNCHANGED notParserVars

AtAttrUnquoted ==
    /\ AtAttribute /\ current(AfterName) = "="
    /\ current(AfterEquals) \notin {"\"", "'"}

\* parseAttribute: name = value, the value without quotes
AttrUnquoted ==
    /\ AtAttrUnquoted
    /\ attributes' = Append(attributes,
            MakeAttribute(parseAttributeName(LoopCursor).text,
                          parseUnquotedValue(AfterEquals).text))
    /\ lexer' = parseUnquotedValue(AfterEquals).lexer
    /\ UNCHANGED <<input, errors, warnings, ast, pc, stack, startPos, tagName,
                   name, quote, acc, node>>
    /\ UNCHANGED notParserVars

AtAttrQuoted ==
    /\ AtAttribute /\ current(AfterName) = "="
    /\ current(AfterEquals) \in {"\"", "'"}

\* parseAttribute: name = and an opening quote; parseQuotedString skips it
AttrQuoted ==
    /\ AtAttrQuoted
    /\ name' = parseAttributeName(LoopCursor).text
    /\ quote' = current(AfterEquals)
    /\ lexer' = advance(AfterEquals)
    /\ acc' = <<>>
    /\ pc' = "quoted"
    /\ UNCHANGED <<input, errors, warnings, ast, stack, startPos, tagName,
                   attributes, node>>
    /\ UNCHANGED notParserVars

InQuoted == pc = "quoted" /\ ~isEOF(lexer) /\ current(lexer) # quote

\* QuotedChar as it would be if a backslash were kept without being skipped
QuotedChar_EscapeKept ==
    /\ InQuoted
    /\ IF current(lexer) = "\\"
       THEN /\ acc' = Append(acc, current(lexer))
            /\ lexer' = lexer
       ELSE /\ acc' = Append(acc, current(lexer))
            /\ lexer' = advance(lexer)
    /\ UNCHANGED <<input, errors, warnings, ast, pc, stack, startPos, tagName,
                   attributes, name, quote, node>>
    /\ UNCHANGED notParserVars

\* parseQuotedString: one iteration of the loop; a backslash is skipped and
\* the character after it, if any, is taken as it is
QuotedChar ==
    /\ InQuoted
    /\ IF current(lexer) = "\\"
       THEN IF ~isEOF(advance(lexer))
            THEN /\ acc' = Append(acc, current(advance(lexer)))
                 /\ lexer' = advance(advance(lexer))
            ELSE /\ acc' = acc
                 /\ lexer' = advance(lexer)
       ELSE /\ acc' = Append(acc, current(lexer))
            /\ lexer' = advance(lexer)
    /\ UNCHANGED <<input, errors, warnings, ast, pc, stack, startPos, tagName,
                   attributes, name, quote, node>>
    /\ UNCHANGED notParserVars

AtQuotedEnd == pc = "quoted" /\ (isEOF(lexer) \/ current(lexer) = quote)

\* parseQuotedString: the loop ends at the closing quote, which is skipped,
\* or at end-of-input; parseAttribute returns the attribute
QuotedEnd ==
    /\ AtQuotedEnd
    /\ lexer' = IF current(lexer) = quote THEN advance(lexer) ELSE lexer
    /\ attributes' = Append(attributes, MakeAttribute(name, acc))
    /\ name' = <<>>
    /\ quote' = ""
    /\ acc' = <<>>
    /\ pc' = "attrs"
    /\ UNCHANGED <<input, errors, warnings, ast, stack, startPos, tagName, node>>
    /\ UNCHANGED notParserVars

\* parseElement after parseAttributes: "/" before ">" marks a self-closing tag
IsSelfClosing == current(lexer) = "/" /\ peek(lexer, 1) = ">"
TagEndCursor == IF IsSelfClosing THEN advance(lexer) ELSE lexer

\* parseElement: no ">" where the open tag should end
AtMissingTagEnd == pc = "tagend" /\ current(TagEndCursor) # ">"

\* MissingTagEnd as it would be if the missing ">" were not reported
MissingTagEnd_Silent ==
    /\ AtMissingTagEnd
    /\ lexer' = TagEndCursor
    /\ errors' = errors
    /\ Deliver(stack, NullNode)
    /\ ResetLocals
    /\ UNCHANGED <<input, warnings>>
    /\ UNCHANGED notParserVars

\* parseElement records an error and returns null
MissingTagEnd ==
    /\ AtMissingTagEnd
    /\ lexer' = TagEndCursor
    /\ errors' = addError(TagEndCursor, "expected >", <<>>, <<>>)
    /\ Deliver(stack, NullNode)
    /\ ResetLocals
    /\ UNCHANGED <<input, warnings>>
    /\ UNCHANGED notParserVars

AtSelfClosing == pc = "tagend" /\ IsSelfClosing

\* parseElement: "/>": the element is returned without parsing children
SelfClosingTag ==
    /\ AtSelfClosing
    /\ lexer' = advance(TagEndCursor)
    /\ Deliver(stack, ElementNode(tagName, processAttributes(attributes),
                                  startPos, advance(TagEndCursor)))
    /\ ResetLocals
    /\ UNCHANGED <<input, errors, warnings>>
    /\ UNCHANGED notParserVars

AtOpenTagEnd == pc = "tagend" /\ ~IsSelfClosing /\ current(lexer) = ">"

\* parseElement: ">": the element is built and parseChildren begins
OpenTag ==
    /\ AtOpenTagEnd
    /\ lexer' = advance(lexer)
    /\ stack' = Append(stack, ElementNode(tagName, processAttributes(attributes),
                                          startPos, advance(lexer)))
    /\ pc' = "loop"
    /\ ResetLocals
    /\ UNCHANGED <<input, errors, warnings, ast, node>>
    /\ UNCHANGED notParserVars

ParserNext ==
    \/ Finish
    \/ ChildrenEOF
    \/ MatchingEndTag
    \/ MismatchedEndTag
    \/ StartComment
    \/ DanglingEndTag
    \/ MissingTagName
    \/ StartTag
    \/ StartText
    \/ TextChar
    \/ TextEnd
    \/ CommentChar
    \/ CommentClose
    \/ CommentEOF
    \/ AttrsEnd
    \/ AttrNoValue
    \/ AttrUnquoted
    \/ AttrQuoted
    \/ QuotedChar
    \/ QuotedEnd
    \/ MissingTagEnd
    \/ SelfClosingTag
    \/ OpenTag

\* some branch of the parser's code applies: parse() goes on
ParserCanStep ==
    \/ AtTopEOF \/ AtOpenElementEOF \/ AtMatchingEndTag \/ AtMismatch
    \/ AtCommentStart \/ AtDanglingEndTag \/ AtMissingTagName \/ AtTagStart
    \/ AtText \/ InText \/ AtTextEnd
    \/ InComment \/ AtCommentClose \/ AtOpenCommentEOF
    \/ AtAttrsEnd \/ AtAttrNoValue \/ AtAttrUnquoted \/ AtAttrQuoted
    \/ InQuoted \/ AtQuotedEnd
    \/ AtMissingTagEnd \/ AtSelfClosing \/ AtOpenTagEnd

-----------------------------------------------------------------------------
(* MpxToVueConverter: the functions that turn names and values *)

\* indentSize
indentSize == 2

\* String(f) of a built-in function f
NativeFunction(n) == <<"f","u","n","c","t","i","o","n"," ">> \o n \o <<"(",")"," ","{"," ","[","n","a","t","i","v","e"," ","c","o","d","e","]"," ","}">>  \* function   () { [native code] }

\* Object.prototype, which every object literal inherits from: a function is
\* held as the text it is rendered with when put into a template string
ObjectPrototype ==
    << [key |-> <<"c","o","n","s","t","r","u","c","t","o","r">>, value |-> NativeFunction(<<"O","b","j","e","c","t">>)],  \* constructor  Object
       [key |-> <<"t","o","S","t","r","i","n","g">>, value |-> NativeFunction(<<"t","o","S","t","r","i","n","g">>)],  \* toString  toString
       [key |-> <<"t","o","L","o","c","a","l","e","S","t","r","i","n","g">>, value |-> NativeFunction(<<"t","o","L","o","c","a","l","e","S","t","r","i","n","g">>)],  \* toLocaleString  toLocaleString
       [key |-> <<"v","a","l","u","e","O","f">>, value |-> NativeFunction(<<"v","a","l","u","e","O","f">>)],  \* valueOf  valueOf
       [key |-> <<"h","a","s","O","w","n","P","r","o","p","e","r","t","y">>, value |-> NativeFunction(<<"h","a","s","O","w","n","P","r","o","p","e","r","t","y">>)],  \* hasOwnProperty  hasOwnProperty
       [key |-> <<"i","s","P","r","o","t","o","t","y","p","e","O","f">>, value |-> NativeFunction(<<"i","s","P","r","o","t","o","t","y","p","e","O","f">>)],  \* isPrototypeOf  isPrototypeOf
       [key |-> <<"p","r","o","p","e","r","t","y","I","s","E","n","u","m","e","r","a","b","l","e">>,  \* propertyIsEnumerable
        value |-> NativeFunction(<<"p","r","o","p","e","r","t","y","I","s","E","n","u","m","e","r","a","b","l","e">>)],  \* propertyIsEnumerable
       [key |-> ProtoKey, value |-> <<"[","o","b","j","e","c","t"," ","O","b","j","e","c","t","]">>] >>  \* [object Object]

\* obj[k] for an object literal obj: its own property, else the inherited
\* one, else undefined (<<>>, falsy like the empty string)
Lookup(obj, k) ==
    IF ObjHas(obj, k) THEN ObjGet(obj, k)
    ELSE IF ObjHas(ObjectPrototype, k) THEN ObjGet(ObjectPrototype, k)
    ELSE <<>>

tagMapping ==
    << [key |-> <<"v","i","e","w">>, value |-> <<"d","i","v">>],  \* view  div
       [key |-> <<"t","e","x","t">>, value |-> <<"s","p","a","n">>],  \* text  span
       [key |-> <<"i","m","a","g","e">>, value |-> <<"i","m","g">>],  \* image  img
       [key |-> <<"n","a","v","i","g","a","t","o","r">>, value |-> <<"r","o","u","t","e","r","-","l","i","n","k">>],  \* navigator  router-link
       [key |-> <<"b","u","t","t","o","n">>, value |-> <<"b","u","t","t","o","n">>],  \* button  button
       [key |-> <<"i","n","p","u","t">>, value |-> <<"i","n","p","u","t">>],  \* input  input
       [key |-> <<"t","e","x","t","a","r","e","a">>, value |-> <<"t","e","x","t","a","r","e","a">>],  \* textarea  textarea
       [key |-> <<"s","c","r","o","l","l","-","v","i","e","w">>, value |-> <<"d","i","v">>],  \* scroll-view  div
       [key |-> <<"s","w","i","p","e","r">>, value |-> <<"d","i","v">>],  \* swiper  div
       [key |-> <<"s","w","i","p","e","r","-","i","t","e","m">>, value |-> <<"d","i","v">>],  \* swiper-item  div
       [key |-> <<"p","i","c","k","e","r">>, value |-> <<"s","e","l","e","c","t">>],  \* picker  select
       [key |-> <<"p","i","c","k","e","r","-","v","i","e","w">>, value |-> <<"d","i","v">>],  \* picker-view  div
       [key |-> <<"s","l","i","d","e","r">>, value |-> <<"i","n","p","u","t">>],  \* slider  input
       [key |-> <<"s","w","i","t","c","h">>, value |-> <<"i","n","p","u","t">>],  \* switch  input
       [key |-> <<"c","h","e","c","k","b","o","x">>, value |-> <<"i","n","p","u","t">>],  \* checkbox  input
       [key |-> <<"r","a","d","i","o">>, value |-> <<"i","n","p","u","t">>],  \* radio  input
       [key |-> <<"f","o","r","m">>, value |-> <<"f","o","r","m">>],  \* form  form
       [key |-> <<"l","a","b","e","l">>, value |-> <<"l","a","b","e","l">>] >>  \* label  label

\* tagMapping[mpxTag] || mpxTag
convertTagName(mpxTag) ==
    IF Lookup(tagMapping, mpxTag) # <<>> THEN Lookup(tagMapping, mpxTag)
    ELSE mpxTag

attrMapping ==
    << [key |-> <<"w","x",":","k","e","y">>, value |-> <<"k","e","y">>],  \* wx:key  key
       [key |-> <<"h","o","v","e","r","-","c","l","a","s","s">>, value |-> <<":","c","l","a","s","s">>],  \* hover-class  :class
       [key |-> <<"h","o","v","e","r","-","s","t","a","r","t","-","t","i","m","e">>, value |-> <<>>],  \* hover-start-time
       [key |-> <<"h","o","v","e","r","-","s","t","a","y","-","t","i","m","e">>, value |-> <<>>],  \* hover-stay-time
       [key |-> <<"s","c","r","o","l","l","-","x">>, value |-> <<>>],  \* scroll-x
       [key |-> <<"s","c","r","o","l","l","-","y">>, value |-> <<>>],  \* scroll-y
       [key |-> <<"s","c","r","o","l","l","-","t","o","p">>, value |-> <<":","s","c","r","o","l","l","-","t","o","p">>],  \* scroll-top  :scroll-top
       [key |-> <<"s","c","r","o","l","l","-","l","e","f","t">>, value |-> <<":","s","c","r","o","l","l","-","l","e","f","t">>],  \* scroll-left  :scroll-left
       [key |-> <<"e","n","a","b","l","e","-","b","a","c","k","-","t","o","-","t","o","p">>, value |-> <<>>],  \* enable-back-to-top
       [key |-> <<"b","i","n","d","s","c","r","o","l","l">>, value |-> <<"@","s","c","r","o","l","l">>],  \* bindscroll  @scroll
       [key |-> <<"b","i","n","d","i","n","p","u","t">>, value |-> <<"@","i","n","p","u","t">>],  \* bindinput  @input
       [key |-> <<"b","i","n","d","c","h","a","n","g","e">>, value |-> <<"@","c","h","a","n","g","e">>],  \* bindchange  @change
       [key |-> <<"b","i","n","d","b","l","u","r">>, value |-> <<"@","b","l","u","r">>],  \* bindblur  @blur
       [key |-> <<"b","i","n","d","f","o","c","u","s">>, value |-> <<"@","f","o","c","u","s">>] >>  \* bindfocus  @focus

\* the template string `${n}="${value}"`
Attr(n, value) == n \o <<"=","\"">> \o value \o <<"\"">>  \* ="

\* convertExpression without the trim() of the unwrapped text
convertExpression_NoTrim(expr) ==
    IF StartsWith(expr, <<"{","{">>) /\ EndsWith(expr, <<"}","}">>)  \* {{  }}
    THEN SliceNeg(expr, 2, 2)
    ELSE expr

convertExpression(expr) ==
    IF StartsWith(expr, <<"{","{">>) /\ EndsWith(expr, <<"}","}">>)  \* {{  }}
    THEN Trim(SliceNeg(expr, 2, 2))
    ELSE expr

\* all three return statements of convertAttribute build the same text
convertAttribute(n, value) ==
    LET vueName == IF Lookup(attrMapping, n) # <<>>
                   THEN Lookup(attrMapping, n) ELSE n
    IN  IF vueName = <<>> THEN <<>> ELSE Attr(vueName, value)

\* the default branch as it would be without the stop modifier
defaultDirective_NoStop(n, directive) ==
    IF StartsWith(n, <<"b","i","n","d">>) \/ StartsWith(n, <<"c","a","t","c","h">>)  \* bind  catch
    THEN <<"@">> \o Substring(n, IF StartsWith(n, <<"b","i","n","d">>) THEN 4 ELSE 5)  \* bind
         \o <<"=","\"">> \o directive.value \o <<"\"">>  \* ="
    ELSE Attr(n, directive.value)

\* the default branch of the switch of convertDirective
defaultDirective(n, directive) ==
    IF StartsWith(n, <<"b","i","n","d">>)  \* bind
    THEN Attr(<<"@">> \o Substring(n, 4), directive.value)
    ELSE IF StartsWith(n, <<"c","a","t","c","h">>)  \* catch
    THEN Attr(<<"@">> \o Substring(n, 5) \o <<".","s","t","o","p">>, directive.value)  \* .stop
    ELSE IF StartsWith(n, <<"@">>)
    THEN Attr(<<"@">> \o Substring(n, 1), directive.value)
    ELSE Attr(n, directive.value)

convertDirective(n, directive) ==
    CASE n = <<"w","x",":","i","f">> -> Attr(<<"v","-","i","f">>, convertExpression(directive.value))  \* wx:if  v-if
      [] n = <<"w","x",":","e","l","i","f">> ->  \* wx:elif
            Attr(<<"v","-","e","l","s","e","-","i","f">>, convertExpression(directive.value))  \* v-else-if
      [] n = <<"w","x",":","e","l","s","e">> -> <<"v","-","e","l","s","e">>  \* wx:else  v-else
      [] n = <<"w","x",":","f","o","r">> ->  \* wx:for
            Attr(<<"v","-","f","o","r">>,  \* v-for
                 <<"(","i","t","e","m",","," ","i","n","d","e","x",")"," ","i","n"," ">> \o convertExpression(directive.value))  \* (item, index) in 
      [] n = <<"w","x",":","k","e","y">> -> Attr(<<":","k","e","y">>, directive.value)  \* wx:key  :key
      [] n = <<"w","x",":","m","o","d","e","l">> ->  \* wx:model
            Attr(<<"v","-","m","o","d","e","l">>, convertExpression(directive.value))  \* v-model
      [] n \in {<<"b","i","n","d","t","a","p">>, <<"c","a","t","c","h","t","a","p">>} -> Attr(<<"@","c","l","i","c","k">>, directive.value)  \* bindtap  catchtap  @click
      [] n = <<"b","i","n","d","i","n","p","u","t">> -> Attr(<<"@","i","n","p","u","t">>, directive.value)  \* bindinput  @input
      [] n = <<"b","i","n","d","c","h","a","n","g","e">> -> Attr(<<"@","c","h","a","n","g","e">>, directive.value)  \* bindchange  @change
      [] n = <<"b","i","n","d","f","o","c","u","s">> -> Attr(<<"@","f","o","c","u","s">>, directive.value)  \* bindfocus  @focus
      [] n = <<"b","i","n","d","b","l","u","r">> -> Attr(<<"@","b","l","u","r">>, directive.value)  \* bindblur  @blur
      [] n = <<"@","t","a","p">> -> Attr(<<"@","c","l","i","c","k">>, directive.value)  \* @tap  @click
      [] OTHER -> defaultDirective(n, directive)

\* parts.join(sep)
RECURSIVE Join(_, _)
Join(parts, sep) ==
    IF parts = <<>> THEN <<>>
    ELSE IF Len(parts) = 1 THEN Head(parts)
    ELSE Head(parts) \o sep \o Join(Tail(parts), sep)

\* the first loop of convertAttributes, from entry i of props
RECURSIVE PropParts(_, _)
PropParts(props, i) ==
    IF i > Len(props) THEN <<>>
    ELSE (IF convertAttribute(props[i].key, props[i].value) # <<>>
          THEN <<convertAttribute(props[i].key, props[i].value)>> ELSE <<>>)
         \o PropParts(props, i + 1)

\* the second loop of convertAttributes, from entry i of directives
RECURSIVE DirectiveParts(_, _)
DirectiveParts(directives, i) ==
    IF i > Len(directives) THEN <<>>
    ELSE (IF convertDirective(directives[i].key, directives[i].value) # <<>>
          THEN <<convertDirective(directives[i].key, directives[i].value)>>
          ELSE <<>>)
         \o DirectiveParts(directives, i + 1)

convertAttributes(attrs) ==
    Join(PropParts(attrs.props, 1) \o DirectiveParts(attrs.directives, 1),
         <<" ">>)

isSelfClosingTag(tag) ==
    tag \in {<<"i","m","g">>, <<"i","n","p","u","t">>, <<"b","r">>, <<"h","r">>, <<"m","e","t","a">>, <<"l","i","n","k">>,  \* img  input  br  hr  meta  link
             <<"a","r","e","a">>, <<"b","a","s","e">>, <<"c","o","l">>, <<"e","m","b","e","d">>, <<"s","o","u","r","c","e">>,  \* area  base  col  embed  source
             <<"t","r","a","c","k">>, <<"w","b","r">>}  \* track  wbr

\* this.output after writeLine(content) at indent level `level`
writeLine(level, content) ==
    output \o [i \in 1..(level * indentSize) |-> " "] \o content \o <<"\n">>

\* the local `isSelfClosing && this.isSelfClosingTag(tagName)` of writeElement
WritesSelfClosing(n) ==
    n.children = <<>> /\ isSelfClosingTag(convertTagName(n.name))

\* the local `tag` of writeElement(node, true)
StartTagText(n) ==
    <<"<">> \o convertTagName(n.name)
    \o (IF convertAttributes(n.attributes) # <<>>
        THEN <<" ">> \o convertAttributes(n.attributes) ELSE <<>>)
    \o (IF WritesSelfClosing(n) THEN <<" ","/",">">> ELSE <<">">>)  \*  />

\* the text written by writeElement(node, false)
EndTagText(n) == <<"<","/">> \o convertTagName(n.name) \o <<">">>  \* </

\* the text written by writeComment
CommentText(n) == <<"<","!","-","-"," ">> \o n.content \o <<" ","-","-",">">>  \* <!--    -->

\* convertInterpolation
convertInterpolation(text) == text

-----------------------------------------------------------------------------
(* MpxToVueConverter: convertToVue as a step machine.  A frame of `walk`   *)
(* is a call of traverseNode: its node and the index of the child that its *)
(* for loop takes next.                                                    *)
(*                                                                         *)
(* cpc = "idle"      convertToVue has not been called                      *)
(* cpc = "walk"      inside this.traverse(ast, {enter, exit})              *)
(* cpc = "returned"  convertToVue has returned output.trim()               *)

converterVars == <<output, indentLevel, walk, nextRoot, cpc, converted>>
harnessVars == <<round, first>>
fnVars == <<fn, arg, res>>
visitorVars == <<visitor, calls>>
annotatorVars == <<annotated, serialized, apc>>
callVars == <<parked, running, returned>>

ConverterInit ==
    /\ output = <<>>
    /\ indentLevel = 0
    /\ walk = <<>>
    /\ nextRoot = 1
    /\ cpc = "idle"
    /\ converted = <<>>
    /\ round = 1
    /\ first = <<>>

\* no traverse call by an outside visitor is under way
NoVisitor == [enter |-> FALSE, exit |-> FALSE]
VisitorIdle == visitor = NoVisitor /\ calls = <<>>

\* addRef and astToTemplate have not been called
AnnotatorIdle == annotated = <<>> /\ serialized = <<>> /\ apc = "idle"

\* there is one parseMpxTemplate call only
NoCall == <<>>
SingleCall == parked = NoCall /\ running = 1 /\ returned = <<>>

\* convertMpxToVue(ast.ast) in parseMpxTemplate: lines 10 and 11 of
\* convertToVue, up to the call of traverse
convertToVue ==
    /\ cpc = "idle" /\ pc = "done" /\ round = 1 /\ fn = "none"
    /\ output' = <<>>
    /\ indentLevel' = 0
    /\ walk' = <<>>
    /\ nextRoot' = 1
    /\ cpc' = "walk"
    /\ UNCHANGED <<converted, harnessVars, fnVars, visitorVars,
                   annotatorVars, callVars, parserVars>>

Top == walk[Len(walk)]

\* the for loop of traverse, or of the innermost traverseNode, has a node left
HasNext ==
    /\ cpc = "walk"
    /\ IF walk = <<>> THEN nextRoot <= Len(ast)
       ELSE Top.at <= Len(Top.node.children)

NextNode == IF walk = <<>> THEN ast[nextRoot] ELSE Top.node.children[Top.at]

\* the call traverseNode(n, visitor, parent) from the for loop
Descend(n) ==
    /\ walk' = (IF walk = <<>> THEN <<>>
                ELSE [walk EXCEPT ![Len(walk)].at = @ + 1])
               \o <<[node |-> n, at |-> 1]>>
    /\ nextRoot' = IF walk = <<>> THEN nextRoot + 1 ELSE nextRoot

\* visitor.enter on an element: writeElement(node, true)
EnterElement ==
    /\ HasNext /\ NextNode.type = "element"
    /\ output' = writeLine(indentLevel, StartTagText(NextNode))
    /\ indentLevel' = IF WritesSelfClosing(NextNode) THEN indentLevel
                      ELSE indentLevel + 1
    /\ Descend(NextNode)
    /\ UNCHANGED <<cpc, converted, harnessVars, fnVars, visitorVars,
                   annotatorVars, callVars, parserVars>>

\* visitor.enter on a text node: writeText
EnterText ==
    /\ HasNext /\ NextNode.type = "text"
    /\ output' = IF Trim(NextNode.content) # <<>>
                 THEN writeLine(indentLevel,
                                convertInterpolation(Trim(NextNode.content)))
                 ELSE output
    /\ Descend(NextNode)
    /\ UNCHANGED <<indentLevel, cpc, converted, harnessVars, fnVars, visitorVars,
                   annotatorVars, callVars, parserVars>>

\* visitor.enter on a comment: writeComment
EnterComment ==
    /\ HasNext /\ NextNode.type = "comment"
    /\ output' = writeLine(indentLevel, CommentText(NextNode))
    /\ Descend(NextNode)
    /\ UNCHANGED <<indentLevel, cpc, converted, harnessVars, fnVars, visitorVars,
                   annotatorVars, callVars, parserVars>>

AtExit == cpc = "walk" /\ walk # <<>> /\ Top.at > Len(Top.node.children)

\* onExitNode as it would be if it wrote the close tag of every element
ExitNode_Always ==
    /\ AtExit
    /\ IF Top.node.type = "element"
       THEN /\ indentLevel' = indentLevel - 1
            /\ output' = writeLine(indentLevel - 1, EndTagText(Top.node))
       ELSE UNCHANGED <<output, indentLevel>>
    /\ walk' = SubSeq(walk, 1, Len(walk) - 1)
    /\ UNCHANGED <<nextRoot, cpc, converted, harnessVars, fnVars, visitorVars,
                   annotatorVars, callVars, parserVars>>

\* visitor.exit when the for loop of traverseNode is over: onExitNode, and
\* for an element with children writeElement(node, false)
ExitNode ==
    /\ AtExit
    /\ IF Top.node.type = "element" /\ Len(Top.node.children) > 0
       THEN /\ indentLevel' = indentLevel - 1
            /\ output' = writeLine(indentLevel - 1, EndTagText(Top.node))
       ELSE UNCHANGED <<output, indentLevel>>
    /\ walk' = SubSeq(walk, 1, Len(walk) - 1)
    /\ UNCHANGED <<nextRoot, cpc, converted, harnessVars, fnVars, visitorVars,
                   annotatorVars, callVars, parserVars>>

\* traverse is over: return this.output.trim()
ConvertReturn ==
    /\ cpc = "walk" /\ walk = <<>> /\ nextRoot > Len(ast)
    /\ converted' = Trim(output)
    /\ cpc' = "returned"
    /\ UNCHANGED <<output, indentLevel, walk, nextRoot, harnessVars, fnVars, visitorVars,
                   annotatorVars, callVars,
                   parserVars>>

ConverterNext ==
    \/ convertToVue
    \/ EnterElement
    \/ EnterText
    \/ EnterComment
    \/ ExitNode
    \/ ConvertReturn

-----------------------------------------------------------------------------
(* The converter on its own: forests for convertMpxToVue *)

\* number of children of an element of a forest
MaxChildren == 2

\* view maps to div, image maps to the void img, p is neither mapped nor void
ConverterTags == {<<"v","i","e","w">>, <<"i","m","a","g","e">>, <<"p">>}  \* view  image

ConverterAttributes ==
    { processAttributes(<<>>),
      processAttributes(<<MakeAttribute(<<"c","l","a","s","s">>, <<"a">>),  \* class
                          MakeAttribute(<<"w","x",":","i","f">>, <<"{","{"," ","a"," ","}","}">>)>>) }  \* wx:if  {{ a }}

Childless ==
    {ElementNode(t, a, NewLexer, NewLexer) :
        t \in ConverterTags, a \in ConverterAttributes}

Leaves ==
    {TextNode(<<"t"," ">>, NewLexer, NewLexer),  \* t 
     CommentNode(<<" ","c"," ">>, NewLexer, NewLexer)} \cup Childless  \*  c 

SeqsUpTo(S, n) == UNION {[1..k -> S] : k \in 1..n}

Parents == {[e EXCEPT !.children = c] :
                e \in Childless, c \in SeqsUpTo(Leaves, MaxChildren)}

GrandParents ==
    {[ElementNode(<<"v","i","e","w">>, processAttributes(<<>>), NewLexer, NewLexer)  \* view
        EXCEPT !.children = <<n>>] : n \in Parents}

Forests ==
    {<<n>> : n \in Leaves \cup Parents \cup GrandParents}
    \cup {<<n, m>> : n \in Leaves, m \in Leaves}

\* the parser after parse() has returned `forest`
ParserReturned(forest) ==
    /\ input = <<>>
    /\ lexer = NewLexer
    /\ errors = <<>>
    /\ warnings = <<>>
    /\ ast = forest
    /\ pc = "done"
    /\ stack = <<>>
    /\ startPos = NewLexer
    /\ tagName = <<>>
    /\ attributes = <<>>
    /\ name = <<>>
    /\ quote = ""
    /\ acc = <<>>
    /\ node = NullNode

-----------------------------------------------------------------------------
(* ASTTraverser.traverse called by a visitor of its own, as the inspection *)
(* tooling does.  Its callbacks record each call they receive in `calls`.  *)
(* A node is identified by its place in the forest: the index of its root  *)
(* followed by the child indexes that lead to it.                          *)
(*                                                                         *)
(* cpc = "walk"       inside traverse(ast, visitor)                        *)
(* cpc = "traversed"  traverse has returned                                *)
(* cpc = "thrown"     a callback threw, and traverse with it               *)

\* what a callback does when it is called: it returns a value, or it throws
CallbackOutcomes == {"undefined", "false", "throw"}

\* enter and exit are both optional
Visitors == [enter : BOOLEAN, exit : BOOLEAN]

undefined == <<>>

\* the place of the node of the innermost traverseNode call
TopPlace ==
    <<nextRoot - 1>> \o [i \in 1..(Len(walk) - 1) |-> walk[i].at - 1]

\* the place of the node the for loop takes next
NextPlace == IF walk = <<>> THEN <<nextRoot>> ELSE Append(TopPlace, Top.at)

\* the `parent` argument of the traverseNode call the for loop makes next,
\* and of the innermost call under way
NextParent == IF walk = <<>> THEN undefined ELSE Top.node
TopParent == IF Len(walk) = 1 THEN undefined ELSE walk[Len(walk) - 1].node

Call(callback, n, parent, place) ==
    [callback |-> callback, node |-> n, parent |-> parent, place |-> place]

\* an outside caller: traverse(ast, v)
traverse ==
    /\ cpc = "idle" /\ pc = "done"
    /\ \E v \in Visitors : visitor' = v
    /\ calls' = <<>>
    /\ walk' = <<>>
    /\ nextRoot' = 1
    /\ cpc' = "walk"
    /\ UNCHANGED <<output, indentLevel, converted, harnessVars, fnVars,
                   annotatorVars, callVars, parserVars>>

\* traverseNode as it would be if a false returned by enter cancelled the
\* visit of the children
VisitEnter_Cancellable(r) ==
    /\ HasNext
    /\ r # "throw"
    /\ calls' = IF visitor.enter
                THEN Append(calls, Call("enter", NextNode, NextParent, NextPlace))
                ELSE calls
    /\ Descend(IF visitor.enter /\ r = "false"
               THEN [NextNode EXCEPT !.children = <<>>] ELSE NextNode)
    /\ UNCHANGED <<output, indentLevel, cpc, converted, visitor, harnessVars,
                   fnVars, annotatorVars, callVars, parserVars>>

\* traverseNode(n, visitor, parent) up to its for loop: visitor.enter, if
\* there is one, is called and does r; what it returns is not looked at
VisitEnter(r) ==
    /\ HasNext
    /\ calls' = IF visitor.enter
                THEN Append(calls, Call("enter", NextNode, NextParent, NextPlace))
                ELSE calls
    /\ IF visitor.enter /\ r = "throw"
       THEN walk' = <<>> /\ cpc' = "thrown" /\ UNCHANGED nextRoot
       ELSE Descend(NextNode) /\ UNCHANGED cpc
    /\ UNCHANGED <<output, indentLevel, converted, visitor, harnessVars, fnVars,
                   annotatorVars, callVars, parserVars>>

\* traverseNode after its for loop: visitor.exit, if there is one, is called
\* and does r, and traverseNode returns
VisitExit(r) ==
    /\ AtExit
    /\ calls' = IF visitor.exit
                THEN Append(calls, Call("exit", Top.node, TopParent, TopPlace))
                ELSE calls
    /\ IF visitor.exit /\ r = "throw"
       THEN walk' = <<>> /\ cpc' = "thrown"
       ELSE walk' = SubSeq(walk, 1, Len(walk) - 1) /\ UNCHANGED cpc
    /\ UNCHANGED <<output, indentLevel, nextRoot, converted, visitor,
                   harnessVars, fnVars, annotatorVars, callVars, parserVars>>

\* the for loop of traverse is over
TraverseReturn ==
    /\ cpc = "walk" /\ walk = <<>> /\ nextRoot > Len(ast)
    /\ cpc' = "traversed"
    /\ UNCHANGED <<output, indentLevel, walk, nextRoot, converted, visitorVars,
                   harnessVars, fnVars, annotatorVars, callVars, parserVars>>

TraverseNext ==
    \/ traverse
    \/ \E r \in CallbackOutcomes : VisitEnter(r)
    \/ \E r \in CallbackOutcomes : VisitExit(r)
    \/ TraverseReturn

-----------------------------------------------------------------------------
(* The annotator (addRef.ts): addRefAndConvertToString on the forest that  *)
(* parse has returned.  An object of the forest that addRefToNode shares   *)
(* with its copy is one object: what is assigned through the copy shows in *)
(* the forest.                                                              *)
(*                                                                         *)
(* apc = "idle"        addRefAndConvertToString has not been called        *)
(* apc = "serialized"  it has returned                                     *)

refName == <<"w","x",":","r","e","f">>

\* String(k)
RECURSIVE NumberText(_)
NumberText(k) ==
    IF k < 10 THEN <<DigitSeq[k + 1]>>
    ELSE NumberText(k \div 10) \o <<DigitSeq[(k % 10) + 1]>>

\* `devtools_${refPath}_${newNode.name}`
refValue(refPath, tag) == <<"d","e","v","t","o","o","l","s","_">> \o refPath \o <<"_">> \o tag

\* the child path as it would be if it were made of the index itself
childRefPath_FromZero(refPath, index) == refPath \o <<"-">> \o NumberText(index)

\* `${refPath}-${index + 1}`, index counting from 0
childRefPath(refPath, index) == refPath \o <<"-">> \o NumberText(index + 1)

\* processAttributes makes the props object when it meets the first
\* attribute that is not a directive
PropsPresent(attrs) ==
    \E i \in 1..Len(attrs.attributesAll) : ~attrs.attributesAll[i].isDirective

\* findIndex(attr => attr.name === "wx:ref"), counting from 1; 0 for none
existingRefIndex(all) ==
    IF \E i \in 1..Len(all) : all[i].name = refName
    THEN CHOOSE i \in 1..Len(all) :
            /\ all[i].name = refName
            /\ \A j \in 1..(i - 1) : all[j].name # refName
    ELSE 0

\* lines 53 to 80 as they would be if no wx:ref entry were looked for
WithRef_Appended(all, value) ==
    Append(all, [name |-> refName, value |-> value, isDirective |-> TRUE,
                 directive |-> [name |-> refName, value |-> value,
                                modifiers |-> <<>>]])

\* lines 53 to 80: the copy of attributesAll with its wx:ref entry
WithRef(all, value) ==
    IF existingRefIndex(all) > 0
    THEN [all EXCEPT ![existingRefIndex(all)].value = value]
    ELSE Append(all, [name |-> refName, value |-> value, isDirective |-> TRUE,
                      directive |-> [name |-> refName, value |-> value,
                                     modifiers |-> <<>>]])

\* the node that addRefToNode returns
RECURSIVE addRefToNode(_, _)
addRefToNode(n, refPath) ==
    IF n.type = "element" /\ n.name # <<>>
    THEN [n EXCEPT
            !.attributes.props = ObjSet(@, refName, refValue(refPath, n.name)),
            !.attributes.attributesAll = WithRef(@, refValue(refPath, n.name)),
            !.children = [i \in 1..Len(n.children) |->
                            IF n.children[i].type = "element"
                            THEN addRefToNode(n.children[i],
                                              childRefPath(refPath, i - 1))
                            ELSE n.children[i]]]
    ELSE n

\* the node given to addRefToNode, once it has returned: `attributes` is
\* copied one level deep, so a props object that the node has is the one
\* that line 50 assigns to
RECURSIVE addRefToNode_Given(_, _)
addRefToNode_Given(n, refPath) ==
    IF n.type = "element" /\ n.name # <<>>
    THEN [n EXCEPT
            !.attributes.props =
                IF PropsPresent(n.attributes)
                THEN ObjSet(@, refName, refValue(refPath, n.name)) ELSE @,
            !.children = [i \in 1..Len(n.children) |->
                            IF n.children[i].type = "element"
                            THEN addRefToNode_Given(n.children[i],
                                                    childRefPath(refPath, i - 1))
                            ELSE n.children[i]]]
    ELSE n

\* ast.map(node => addRefToNode(node, "1"))
addRef(forest) == [i \in 1..Len(forest) |-> addRefToNode(forest[i], <<"1">>)]

\* "  ".repeat(indentLevel)
Indent(level) == [i \in 1..(2 * level) |-> " "]

\* the attributeStrings of elementToString, from entry i of attributesAll
RECURSIVE attributeStrings(_, _)
attributeStrings(all, i) ==
    IF i > Len(all) THEN <<>>
    ELSE (IF all[i].value # <<>>
          THEN <<all[i].name \o <<"=", "\"">> \o all[i].value \o <<"\"">>>>
          ELSE IF all[i].name = <<"w","x",":","e","l","s","e">> THEN <<all[i].name>>
          ELSE <<>>)
         \o attributeStrings(all, i + 1)

RECURSIVE nodeToString(_, _)
RECURSIVE ChildStrings(_, _, _, _)

\* the text that a loop over the children of elementToString adds, from
\* child i on: `lined` in the branch of an element with element children
ChildStrings(children, i, level, lined) ==
    IF i > Len(children) THEN <<>>
    ELSE (IF ~lined THEN nodeToString(children[i], level)
          ELSE IF children[i].type = "element"
          THEN nodeToString(children[i], level) \o <<"\n">>
          ELSE IF children[i].type = "text" THEN Trim(children[i].content)
          ELSE <<>>)
         \o ChildStrings(children, i + 1, level, lined)

elementToString(n, level) ==
    LET parts == attributeStrings(n.attributes.attributesAll, 1)
        open == Indent(level) \o <<"<">> \o n.name
                \o (IF parts # <<>> THEN <<" ">> \o Join(parts, <<" ">>)
                    ELSE <<>>)
                \o <<">">>
        close == <<"<", "/">> \o n.name \o <<">">>
        hasTextChildren ==
            \E i \in 1..Len(n.children) :
                n.children[i].type = "text" /\ Trim(n.children[i].content) # <<>>
        hasElementChildren ==
            \E i \in 1..Len(n.children) : n.children[i].type = "element"
    IN  IF n.children = <<>> THEN open \o close
        ELSE IF hasElementChildren
        THEN open \o <<"\n">> \o ChildStrings(n.children, 1, level + 1, TRUE)
             \o Indent(level) \o close
        ELSE IF hasTextChildren
        THEN open \o ChildStrings(n.children, 1, 0, FALSE) \o close
        ELSE open \o ChildStrings(n.children, 1, level + 1, FALSE) \o close

nodeToString(n, level) ==
    IF n.type = "element" THEN elementToString(n, level)
    ELSE IF n.type = "text" THEN Trim(n.content)
    ELSE IF n.type = "comment"
    THEN Indent(level) \o <<"<","!","-","-"," ">> \o n.content \o <<" ","-","-",">">>
    ELSE <<>>

\* ast.map(node => nodeToString(node, 0)).join("")
astToTemplate(forest) ==
    Concat([i \in 1..Len(forest) |-> nodeToString(forest[i], 0)])

\* addRefAndConvertToString(ast) on the forest of the parse result
addRefAndConvertToString ==
    /\ pc = "done" /\ apc = "idle" /\ cpc = "idle" /\ round = 1
    /\ annotated' = addRef(ast)
    /\ ast' = [i \in 1..Len(ast) |-> addRefToNode_Given(ast[i], <<"1">>)]
    /\ serialized' = astToTemplate(addRef(ast))
    /\ apc' = "serialized"
    /\ UNCHANGED <<input, lexer, errors, warnings, pc, stack, startPos, tagName,
                   attributes, name, quote, acc, node, converterVars,
                   harnessVars, fnVars, visitorVars, callVars>>

\* addRef called on the forest that addRef returned, and the result
\* serialized: a props object that the first call shared with its input is
\* assigned to once more
addRefAgain ==
    /\ pc = "done" /\ apc = "serialized" /\ cpc = "idle" /\ round = 1
    /\ annotated' = addRef(annotated)
    /\ ast' = [i \in 1..Len(ast) |-> addRefToNode_Given(ast[i], <<"1">>)]
    /\ serialized' = astToTemplate(addRef(annotated))
    /\ apc' = "twice"
    /\ UNCHANGED <<input, lexer, errors, warnings, pc, stack, startPos, tagName,
                   attributes, name, quote, acc, node, converterVars,
                   harnessVars, fnVars, visitorVars, callVars>>

\* the text returned is given to a new MpxTemplateParser
ReparseSerialized ==
    /\ apc = "serialized" /\ round = 1
    /\ round' = 2
    /\ first' = ast
    /\ input' = serialized
    /\ lexer' = NewLexer
    /\ errors' = <<>>
    /\ warnings' = <<>>
    /\ ast' = <<>>
    /\ pc' = "loop"
    /\ stack' = <<>>
    /\ ResetLocals
    /\ node' = NullNode
    /\ UNCHANGED <<converterVars, fnVars, visitorVars, annotatorVars, callVars>>

AnnotatorNext ==
    addRefAndConvertToString \/ ReparseSerialized \/ addRefAgain

-----------------------------------------------------------------------------
(* Two parseMpxTemplate calls.  Each call makes a MpxTemplateParser (with   *)
(* its Lexer) and a MpxToVueConverter of its own; the variables of the      *)
(* parser and of the converter are those of the call that is running, and  *)
(* `parked` holds those of the other.  The two calls are first run step by *)
(* step in any order, then once more one after the other.                  *)

\* the instances of the running call
Own ==
    [input |-> input, lexer |-> lexer, errors |-> errors,
     warnings |-> warnings, ast |-> ast, pc |-> pc, stack |-> stack,
     startPos |-> startPos, tagName |-> tagName, attributes |-> attributes,
     name |-> name, quote |-> quote, acc |-> acc, node |-> node,
     output |-> output, indentLevel |-> indentLevel, walk |-> walk,
     nextRoot |-> nextRoot, cpc |-> cpc, converted |-> converted]

\* new MpxTemplateParser(template), and the new MpxToVueConverter() that
\* convertMpxToVue will make
Fresh(template) ==
    [input |-> template, lexer |-> NewLexer, errors |-> <<>>,
     warnings |-> <<>>, ast |-> <<>>, pc |-> "loop", stack |-> <<>>,
     startPos |-> NewLexer, tagName |-> <<>>, attributes |-> <<>>,
     name |-> <<>>, quote |-> "", acc |-> <<>>, node |-> NullNode,
     output |-> <<>>, indentLevel |-> 0, walk |-> <<>>,
     nextRoot |-> 1, cpc |-> "idle", converted |-> <<>>]

\* the running call is `call`
Running(call) ==
    /\ input = call.input /\ lexer = call.lexer /\ errors = call.errors
    /\ warnings = call.warnings /\ ast = call.ast /\ pc = call.pc
    /\ stack = call.stack /\ startPos = call.startPos
    /\ tagName = call.tagName /\ attributes = call.attributes
    /\ name = call.name /\ quote = call.quote /\ acc = call.acc
    /\ node = call.node
    /\ output = call.output /\ indentLevel = call.indentLevel
    /\ walk = call.walk /\ nextRoot = call.nextRoot /\ cpc = call.cpc
    /\ converted = call.converted

\* a call takes its turn, as it would be if `output` were one buffer of
\* the module instead of a field of each converter
Resume_SharedOutput(call) ==
    /\ input' = call.input /\ lexer' = call.lexer /\ errors' = call.errors
    /\ warnings' = call.warnings /\ ast' = call.ast /\ pc' = call.pc
    /\ stack' = call.stack /\ startPos' = call.startPos
    /\ tagName' = call.tagName /\ attributes' = call.attributes
    /\ name' = call.name /\ quote' = call.quote /\ acc' = call.acc
    /\ node' = call.node
    /\ output' = output /\ indentLevel' = call.indentLevel
    /\ walk' = call.walk /\ nextRoot' = call.nextRoot /\ cpc' = call.cpc
    /\ converted' = call.converted

\* a call takes its turn: its steps act on its own instances
Resume(call) ==
    /\ input' = call.input /\ lexer' = call.lexer /\ errors' = call.errors
    /\ warnings' = call.warnings /\ ast' = call.ast /\ pc' = call.pc
    /\ stack' = call.stack /\ startPos' = call.startPos
    /\ tagName' = call.tagName /\ attributes' = call.attributes
    /\ name' = call.name /\ quote' = call.quote /\ acc' = call.acc
    /\ node' = call.node
    /\ output' = call.output /\ indentLevel' = call.indentLevel
    /\ walk' = call.walk /\ nextRoot' = call.nextRoot /\ cpc' = call.cpc
    /\ converted' = call.converted

\* what a call gives back: the text, and the parse result it was made from
Result(call) ==
    [converted |-> call.converted, ast |-> call.ast, errors |-> call.errors,
     warnings |-> call.warnings]

\* templates of the two calls: between them they take every branch of the
\* parser and of the converter
CallInputs ==
    { <<"<","a"," ","b","=","\"","\\","\"","\""," ","d","=","e"," ","f",">","t"," ","<","/","b",">","<","/","a",">">>,
      <<"<","!","-","-","c","-","-",">","<","a","/",">","<","b",">","<","/","b",">","<">>,
      <<"<","a",">","<","!","-","-">>,
      <<"<","a"," ","b">> }

\* the other call takes over: at any step while the two are interleaved,
\* and when the first has returned while they run in turn
Switch ==
    /\ parked # NoCall
    /\ returned = <<>> \/ (running = 1 /\ cpc = "returned")
    /\ parked' = Own
    /\ Resume(parked)
    /\ running' = 3 - running
    /\ UNCHANGED <<returned, harnessVars, fnVars, visitorVars, annotatorVars>>

\* both interleaved calls have returned: their results are kept, and the
\* same two calls are made again, the second after the first has returned
RunInTurn ==
    /\ parked # NoCall /\ returned = <<>>
    /\ cpc = "returned" /\ parked.cpc = "returned"
    /\ returned' = IF running = 1 THEN <<Result(Own), Result(parked)>>
                   ELSE <<Result(parked), Result(Own)>>
    /\ running' = 1
    /\ Resume(Fresh(IF running = 1 THEN input ELSE parked.input))
    /\ parked' = Fresh(IF running = 1 THEN parked.input ELSE input)
    /\ UNCHANGED <<harnessVars, fnVars, visitorVars, annotatorVars>>

TwoCallsNext == ParserNext \/ ConverterNext \/ Switch \/ RunInTurn

-----------------------------------------------------------------------------
(* The converter's functions on their own *)

\* length of a directive value
MaxValueLen == 6

ValueAlphabet == {"{", "}", " ", "a"}
Values ==
    UNION {[1..k -> ValueAlphabet] : k \in 0..MaxValueLen}
    \cup {<<"{", "{", "\n", " ", "a", "\t", "}", "}">>, <<"\n", "a", "\n">>}  \* {{\n a\t}}  \na\n
ShortValues ==
    {<<>>, <<"a">>, <<"{","{"," ","a"," ","}","}">>, <<"{","{","a">>,  \* {{ a }}  {{a
     <<"a","}","}">>}  \* a}}

DirectiveNames ==
    {<<"w","x",":","i","f">>, <<"w","x",":","e","l","i","f">>, <<"w","x",":","e","l","s","e">>, <<"w","x",":","f","o","r">>, <<"w","x",":","k","e","y">>,  \* wx:if  wx:elif  wx:else  wx:for  wx:key
     <<"w","x",":","m","o","d","e","l">>, <<"b","i","n","d","t","a","p">>, <<"c","a","t","c","h","t","a","p">>, <<"@","t","a","p">>, <<"b","i","n","d","i","n","p","u","t">>,  \* wx:model  bindtap  catchtap  @tap  bindinput
     <<"b","i","n","d","c","h","a","n","g","e">>, <<"b","i","n","d","f","o","c","u","s">>, <<"b","i","n","d","b","l","u","r">>, <<"b","i","n","d","s","c","r","o","l","l">>,  \* bindchange  bindfocus  bindblur  bindscroll
     <<"b","i","n","d","l","o","n","g","p","r","e","s","s">>, <<"b","i","n","d">>, <<"c","a","t","c","h","t","o","u","c","h","m","o","v","e">>, <<"c","a","t","c","h">>,  \* bindlongpress  bind  catchtouchmove  catch
     <<"@","c","l","i","c","k">>, <<"@">>, <<"w","x",":","s","h","o","w">>, <<"w","x",":">>}  \* @click  wx:show  wx:

AttributeNames ==
    {<<"c","l","a","s","s">>, <<"i","d">>, <<"s","r","c">>, <<"s","t","y","l","e">>, <<"t","y","p","e">>, <<"a">>,  \* class  id  src  style  type
     <<"h","o","v","e","r","-","c","l","a","s","s">>, <<"h","o","v","e","r","-","s","t","a","r","t","-","t","i","m","e">>, <<"h","o","v","e","r","-","s","t","a","y","-","t","i","m","e">>,  \* hover-class  hover-start-time  hover-stay-time
     <<"s","c","r","o","l","l","-","x">>, <<"s","c","r","o","l","l","-","y">>, <<"s","c","r","o","l","l","-","t","o","p">>, <<"s","c","r","o","l","l","-","l","e","f","t">>,  \* scroll-x  scroll-y  scroll-top  scroll-left
     <<"e","n","a","b","l","e","-","b","a","c","k","-","t","o","-","t","o","p">>, <<"c","o","n","s","t","r","u","c","t","o","r">>, <<"t","o","S","t","r","i","n","g">>}  \* enable-back-to-top  constructor  toString

TagNames ==
    {tagMapping[i].key : i \in 1..Len(tagMapping)}
    \cup {tagMapping[i].value : i \in 1..Len(tagMapping)}
    \cup {<<"a">>, <<"p">>, <<"b","r">>, <<"d","i","v","-","2">>, <<"c","o","n","s","t","r","u","c","t","o","r">>, <<"v","a","l","u","e","O","f">>}  \* br  div-2  constructor  valueOf

NoArg == [name |-> <<>>, value |-> <<>>]

FnArgs ==
    [name : DirectiveNames \cup AttributeNames \cup TagNames,
     value : ShortValues]
    \cup [name : {<<>>}, value : Values]

FnIdle == fn = "none" /\ arg = NoArg /\ res = <<>>

FnInit ==
    /\ ParserReturned(<<>>)
    /\ ConverterInit
    /\ fn = "none" /\ arg \in FnArgs /\ res = <<>>
    /\ VisitorIdle /\ AnnotatorIdle /\ SingleCall

\* convertDirective on an entry of attributes.directives
ApplyConvertDirective ==
    /\ fn = "none" /\ isDirectiveName(arg.name)
    /\ fn' = "convertDirective"
    /\ res' = convertDirective(arg.name,
                               [value |-> arg.value, modifiers |-> <<>>])
    /\ UNCHANGED <<arg, converterVars, harnessVars, visitorVars,
                   annotatorVars, callVars, parserVars>>

\* convertAttribute on an entry of attributes.props
ApplyConvertAttribute ==
    /\ fn = "none" /\ arg.name # <<>> /\ ~isDirectiveName(arg.name)
    /\ \A i \in 1..Len(arg.name) : arg.name[i] \in AttrNameChars
    /\ fn' = "convertAttribute"
    /\ res' = convertAttribute(arg.name, arg.value)
    /\ UNCHANGED <<arg, converterVars, harnessVars, visitorVars,
                   annotatorVars, callVars, parserVars>>

\* convertExpression on a directive value
ApplyConvertExpression ==
    /\ fn = "none"
    /\ fn' = "convertExpression"
    /\ res' = convertExpression(arg.value)
    /\ UNCHANGED <<arg, converterVars, harnessVars, visitorVars,
                   annotatorVars, callVars, parserVars>>

\* convertTagName on the name of an element
ApplyConvertTagName ==
    /\ fn = "none" /\ arg.name # <<>>
    /\ \A i \in 1..Len(arg.name) : arg.name[i] \in TagNameChars
    /\ fn' = "convertTagName"
    /\ res' = convertTagName(arg.name)
    /\ UNCHANGED <<arg, converterVars, harnessVars, visitorVars,
                   annotatorVars, callVars, parserVars>>

FnNext ==
    \/ ApplyConvertDirective
    \/ ApplyConvertAttribute
    \/ ApplyConvertExpression
    \/ ApplyConvertTagName

-----------------------------------------------------------------------------
(* The template parsed, converted, and the conversion parsed again *)

\* the converted text is given to a new MpxTemplateParser
Reparse ==
    /\ cpc = "returned" /\ round = 1
    /\ round' = 2
    /\ first' = ast
    /\ input' = converted
    /\ lexer' = NewLexer
    /\ errors' = <<>>
    /\ warnings' = <<>>
    /\ ast' = <<>>
    /\ pc' = "loop"
    /\ stack' = <<>>
    /\ ResetLocals
    /\ node' = NullNode
    /\ UNCHANGED <<converterVars, fnVars, visitorVars, annotatorVars, callVars>>

-----------------------------------------------------------------------------
(* The scanner's operations on their own *)

\* how many times advance is called at end-of-input
MaxPastEnd == 2

ScannerAlphabet == {"a", " ", "\n"}
ScannerInputs == UNION {[1..k -> ScannerAlphabet] : k \in 0..MaxLen}

\* the variables the scanner's operations leave alone; acc holds the
\* characters that advance has returned, res what the last operation
\* returned
notScannerVars == <<errors, warnings, ast, pc, stack, startPos, tagName,
                    attributes, name, quote, node, arg, converterVars,
                    harnessVars, visitorVars, annotatorVars, callVars>>

\* new Lexer(input)
ScannerInit ==
    /\ input \in ScannerInputs
    /\ lexer = NewLexer
    /\ errors = <<>> /\ warnings = <<>> /\ ast = <<>>
    /\ pc = "scanner"
    /\ stack = <<>> /\ startPos = NewLexer
    /\ tagName = <<>> /\ attributes = <<>> /\ name = <<>>
    /\ quote = "" /\ acc = <<>> /\ node = NullNode
    /\ ConverterInit /\ FnIdle
    /\ VisitorIdle /\ AnnotatorIdle /\ SingleCall

\* the character that an operation returns, as a string
Returned(c) == IF c = "" THEN <<>> ELSE <<c>>

\* advance(): the character at the cursor is returned, the cursor moves
ScannerAdvance ==
    /\ lexer.position < Len(input) + MaxPastEnd
    /\ lexer' = advance(lexer)
    /\ fn' = "advance"
    /\ res' = Returned(current(lexer))
    /\ acc' = acc \o Returned(current(lexer))
    /\ UNCHANGED <<input, notScannerVars>>

\* skipWhitespace(): advance() while the character at the cursor is white
\* space
ScannerSkipWhitespace ==
    /\ lexer' = skipWhitespace(lexer)
    /\ fn' = "skipWhitespace"
    /\ res' = <<>>
    /\ acc' = IF skipWhitespace(lexer).position > lexer.position
              THEN acc \o SubSeq(input, lexer.position + 1,
                                 skipWhitespace(lexer).position)
              ELSE acc
    /\ UNCHANGED <<input, notScannerVars>>

\* current()
ScannerCurrent ==
    /\ fn' = "current"
    /\ res' = Returned(current(lexer))
    /\ UNCHANGED <<input, lexer, acc, notScannerVars>>

\* peek(offset)
ScannerPeek ==
    /\ \E offset \in 0..2 : res' = Returned(peek(lexer, offset))
    /\ fn' = "peek"
    /\ UNCHANGED <<input, lexer, acc, notScannerVars>>

\* isEOF()
ScannerIsEOF ==
    /\ fn' = "isEOF"
    /\ res' = <<isEOF(lexer)>>
    /\ UNCHANGED <<input, lexer, acc, notScannerVars>>

\* getPosition()
ScannerGetPosition ==
    /\ fn' = "getPosition"
    /\ res' = <<lexer>>
    /\ UNCHANGED <<input, lexer, acc, notScannerVars>>

ScannerNext ==
    \/ ScannerAdvance
    \/ ScannerSkipWhitespace
    \/ ScannerCurrent
    \/ ScannerPeek
    \/ ScannerIsEOF
    \/ ScannerGetPosition

-----------------------------------------------------------------------------
(* The attributes of one tag, processed and converted *)

\* how many attributes are written on the tag
MaxWritten == 3

\* attributes as parseAttribute returns them: plain ones, two of them with
\* names made of digits, and directives
WrittenNames == {<<"b">>, <<"2">>, <<"1">>,
                 <<"w","x",":","i","f">>, <<"b","i","n","d","t","a","p">>}
WrittenValues == {<<"x">>, <<"y">>}
WrittenAttributes ==
    {MakeAttribute(n, v) : n \in WrittenNames, v \in WrittenValues}
WrittenLists == UNION {[1..k -> WrittenAttributes] : k \in 0..MaxWritten}

\* parseAttributes has returned a list to parseElement
AttributesInit ==
    /\ input = <<>> /\ lexer = NewLexer
    /\ errors = <<>> /\ warnings = <<>> /\ ast = <<>>
    /\ pc = "element"
    /\ stack = <<>> /\ startPos = NewLexer
    /\ tagName = <<"a">> /\ attributes \in WrittenLists /\ name = <<>>
    /\ quote = "" /\ acc = <<>> /\ node = NullNode
    /\ ConverterInit /\ FnIdle
    /\ VisitorIdle /\ AnnotatorIdle /\ SingleCall

\* processAttributes on the list, and convertAttributes on its result
ApplyConvertAttributes ==
    /\ fn = "none" /\ pc = "element"
    /\ fn' = "convertAttributes"
    /\ res' = convertAttributes(processAttributes(attributes))
    /\ UNCHANGED <<arg, converterVars, harnessVars, visitorVars,
                   annotatorVars, callVars, parserVars>>

vars == <<input, lexer, errors, warnings, ast, pc, stack, startPos, tagName,
          attributes, name, quote, acc, node,
          output, indentLevel, walk, nextRoot, cpc, converted, round, first,
          fn, arg, res, visitor, calls, annotated, serialized, apc,
          parked, running, returned>>

\* parseMpxTemplate up to the return of parse()
Init ==
    /\ ParserInit /\ ConverterInit /\ FnIdle
    /\ VisitorIdle /\ AnnotatorIdle /\ SingleCall
Next == ParserNext
Spec == Init /\ [][Next]_vars

\* convertMpxToVue on a forest
ConvertInit ==
    /\ \E forest \in Forests : ParserReturned(forest)
    /\ ConverterInit
    /\ FnIdle
    /\ VisitorIdle /\ AnnotatorIdle /\ SingleCall
ConvertSpec == ConvertInit /\ [][ConverterNext]_vars


\* traverse on a forest
TraverseSpec == ConvertInit /\ [][TraverseNext]_vars

\* parse, then addRefAndConvertToString, and its result parsed again
AnnotateNext == ParserNext \/ AnnotatorNext
AnnotateSpec == Init /\ [][AnnotateNext]_vars

\* two parseMpxTemplate calls, interleaved and then in turn
TwoCallsInit ==
    /\ \E x, y \in CallInputs :
          x # y /\ Running(Fresh(x)) /\ parked = Fresh(y)
    /\ running = 1 /\ returned = <<>>
    /\ round = 1 /\ first = <<>>
    /\ FnIdle /\ VisitorIdle /\ AnnotatorIdle
TwoCalls == TwoCallsInit /\ [][TwoCallsNext]_vars
\* one function of the converter on one argument
FnSpec == FnInit /\ [][FnNext]_vars

\* parseMpxTemplate, and its result parsed again
RoundTripNext == ParserNext \/ ConverterNext \/ Reparse
RoundTrip == Init /\ [][RoundTripNext]_vars

\* any sequence of the scanner's operations on one input
ScannerSpec == ScannerInit /\ [][ScannerNext]_vars

\* addRefAndConvertToString on a forest
SerializeSpec == ConvertInit /\ [][addRefAndConvertToString]_vars

\* the attributes of one tag through processAttributes and convertAttributes
AttributesSpec == AttributesInit /\ [][ApplyConvertAttributes]_vars

-----------------------------------------------------------------------------
(* Predicates on the parser's state used by the properties below *)

LastError == errors[Len(errors)]

OneErrorAdded ==
    /\ Len(errors') = Len(errors) + 1
    /\ SubSeq(errors', 1, Len(errors)) = errors

RECURSIVE IsNode(_)
IsNode(n) ==
    /\ n.type \in {"element", "text", "comment"}
    /\ n.position.start <= n.position.end
    /\ \A i \in 1..Len(n.children) : IsNode(n.children[i])

IsForest(f) == \A i \in 1..Len(f) : IsNode(f[i])

IsErrorList(es) ==
    \A i \in 1..Len(es) :
        /\ es[i].line >= 1 /\ es[i].column >= 1
        /\ es[i].message \in {"expected tag name", "expected >",
                              "mismatched end tag"}

-----------------------------------------------------------------------------
(* C1 *)

-----------------------------------------------------------------------------
(* C2 *)

\* frames that stay open keep their children and may gain one at the end;
\* nodes already in the forest stay as they are
IsPrefix(s, t) == Len(s) <= Len(t) /\ SubSeq(t, 1, Len(s)) = s

Attached(n) ==
    IF Len(stack) = 1 THEN ast' = Append(ast, n) /\ stack' = <<>>
    ELSE /\ ast' = ast
         /\ Len(stack') = Len(stack) - 1
         /\ \A i \in 1..(Len(stack) - 2) : stack'[i] = stack[i]
         /\ stack'[Len(stack) - 1] =
                [stack[Len(stack) - 1] EXCEPT !.children = Append(@, n)]

DeliveredStable ==
    /\ IsPrefix(ast, ast')
    /\ \A i \in 1..Len(stack) :
          i <= Len(stack') /\ i < Len(stack) =>
            /\ stack'[i].name = stack[i].name
            /\ IsPrefix(stack[i].children, stack'[i].children)

\* C2: at a close tag that does not name the open element E, exactly one
\* error is recorded, for that close tag; E stops collecting: E is handed to
\* its parent with the children it had, and is no longer open; the nodes
\* attached to the ancestors of E before are unchanged (E is added after
\* them); and no later step changes a node that has been attached.
C2_MismatchStopsElement ==
    /\ [][AtMismatch =>
            /\ OneErrorAdded
            /\ errors'[Len(errors')].message = "mismatched end tag"
            /\ errors'[Len(errors')].expected = OpenElement.name
            /\ errors'[Len(errors')].found = parseEndTag(LoopCursor).text
            /\ node' = OpenElement
            /\ Attached(OpenElement)]_vars
    /\ [][DeliveredStable]_vars

\* C2 witness: a mismatch has just closed an element that has a child and
\* an earlier sibling, inside an element that is still open
C2_Witness ==
    /\ pc = "loop"
    /\ errors # <<>> /\ LastError.message = "mismatched end tag"
    /\ node.type = "element" /\ node.children # <<>>
    /\ node.name = LastError.expected
    /\ stack # <<>>
    /\ Len(OpenElement.children) >= 2
    /\ OpenElement.children[Len(OpenElement.children)] = node

-----------------------------------------------------------------------------
(* C3 *)

\* C3: an open tag without a tag name, or one that ">" does not end, adds one
\* error that carries the line and the column of the cursor, returns no node
\* (nothing is attached), and the loop that called goes on from the cursor
\* reached; an attribute value whose closing quote is missing runs to
\* end-of-input, where the open tag is found not to end with ">".
C3_StructuralError ==
    /\ [][(AtMissingTagName \/ AtMissingTagEnd) =>
            /\ OneErrorAdded
            /\ errors'[Len(errors')].message =
                  (IF AtMissingTagName THEN "expected tag name" ELSE "expected >")
            /\ errors'[Len(errors')].line = lexer'.line
            /\ errors'[Len(errors')].column = lexer'.column
            /\ node' = NullNode
            /\ ast' = ast /\ stack' = stack
            /\ pc' = "loop"
            /\ lexer' = (IF AtMissingTagName THEN advance(LoopCursor)
                         ELSE TagEndCursor)]_vars
    /\ [][pc = "quoted" /\ isEOF(lexer) => pc' = "attrs" /\ lexer' = lexer]_vars
    /\ [][pc = "attrs" /\ isEOF(lexer) => pc' = "tagend" /\ lexer' = lexer]_vars
    /\ [](pc = "tagend" /\ isEOF(lexer) => AtMissingTagEnd)

Count(s, c) == Cardinality({i \in 1..Len(s) : s[i] = c})

\* C3 witness: an attribute value whose quote is never closed, on the
\* second line of the input, has just been reported at end-of-input
C3_Witness ==
    /\ pc = "loop" /\ node = NullNode
    /\ isEOF(lexer)
    /\ errors # <<>> /\ LastError.message = "expected >"
    /\ LastError.line = 2
    /\ StartsWith(input, <<"<", "a", " ", "a", "=", "\"">>)  \* <a a="
    /\ Count(input, "\"") = 1

-----------------------------------------------------------------------------
(* C4 *)

\* an iteration of a loop consumes a character or leaves the loop
LoopProgress ==
    /\ lexer'.position >= lexer.position
    /\ pc = "text" /\ pc' = "text" => lexer'.position > lexer.position
    /\ pc = "comment" /\ pc' = "comment" => lexer'.position > lexer.position
    /\ pc = "quoted" /\ pc' = "quoted" => lexer'.position > lexer.position
    /\ pc = "attrs" /\ pc' \in {"attrs", "quoted"} =>
          lexer'.position > lexer.position
    /\ pc = "loop" /\ pc' # "done" /\ Len(stack') >= Len(stack) =>
          \/ lexer'.position > lexer.position
          \/ pc' = "text" /\ acc' = <<>>
    /\ pc = "text" /\ acc = <<>> => lexer'.position > lexer.position

\* a number that every step of the parser makes smaller: the characters
\* left weigh most, then the open elements, then the place in the code
PcRank ==
    CASE pc = "text" /\ acc = <<>> -> 4
      [] pc = "text" /\ acc # <<>> -> 9
      [] pc = "comment" -> 9
      [] pc = "quoted" -> 8
      [] pc = "attrs" -> 7
      [] pc = "tagend" -> 6
      [] pc = "loop" -> 5
      [] pc = "done" -> 0

Measure == 30 * (Len(input) - lexer.position) + 10 * Len(stack) + PcRank

\* C4: parse terminates on every input: the cursor never passes the end of
\* the input; every iteration of the top-level loop, of the child loop, of
\* the attribute loop and of the comment, text and quoted-string loops
\* consumes at least one character or leaves its loop; every step makes a
\* natural number smaller, and some branch applies until parse has returned,
\* so parse returns, and it does so with the cursor at end-of-input.
C4_Terminates ==
    /\ [](lexer.position <= Len(input))
    /\ [][LoopProgress]_vars
    /\ [](Measure >= 0)
    /\ [][Measure' < Measure]_vars
    /\ [](pc # "done" => ParserCanStep)
    /\ [](pc = "done" => lexer.position = Len(input))

\* C4 witness: parse has returned after the text, attribute, quoted-string
\* and child loops have run
C4_Witness ==
    /\ pc = "done"
    /\ lexer.position = Len(input)
    /\ Len(input) >= 8
    /\ \E i \in 1..Len(ast) :
          /\ ast[i].type = "element"
          /\ ast[i].attributes.attributesAll # <<>>
          /\ ast[i].children # <<>>

-----------------------------------------------------------------------------
(* C5 *)

\* the directive names that have a case of their own
ExactDirectiveNames ==
    {<<"w","x",":","i","f">>, <<"w","x",":","e","l","i","f">>, <<"w","x",":","e","l","s","e">>, <<"w","x",":","f","o","r">>, <<"w","x",":","k","e","y">>,  \* wx:if  wx:elif  wx:else  wx:for  wx:key
     <<"w","x",":","m","o","d","e","l">>, <<"b","i","n","d","t","a","p">>, <<"c","a","t","c","h","t","a","p">>, <<"@","t","a","p">>, <<"b","i","n","d","i","n","p","u","t">>,  \* wx:model  bindtap  catchtap  @tap  bindinput
     <<"b","i","n","d","c","h","a","n","g","e">>, <<"b","i","n","d","f","o","c","u","s">>, <<"b","i","n","d","b","l","u","r">>}  \* bindchange  bindfocus  bindblur

\* C5: convertDirective maps a directive by its name: wx:if to v-if="E",
\* wx:elif to v-else-if="E", wx:else to v-else without a value, wx:for to
\* v-for="(item, index) in E", wx:key to :key="value", wx:model to
\* v-model="E", bindtap, catchtap and @tap to @click="value"; another name
\* that starts with bind to @<rest>="value", another name that starts with
\* catch to @<rest>.stop="value", and any other name to name="value"; E is
\* the value unwrapped, and a name with a case of its own never falls under
\* the prefix rules.
C5_DirectiveTable ==
    fn = "convertDirective" =>
      LET n == arg.name
          v == arg.value
          E == convertExpression(arg.value)
          Q(a, b) == a \o <<"=", "\"">> \o b \o <<"\"">>  \* ="
      IN  /\ n = <<"w","x",":","i","f">> => res = Q(<<"v","-","i","f">>, E)  \* wx:if  v-if
          /\ n = <<"w","x",":","e","l","i","f">> => res = Q(<<"v","-","e","l","s","e","-","i","f">>, E)  \* wx:elif  v-else-if
          /\ n = <<"w","x",":","e","l","s","e">> => res = <<"v","-","e","l","s","e">>  \* wx:else  v-else
          /\ n = <<"w","x",":","f","o","r">> => res = Q(<<"v","-","f","o","r">>, <<"(","i","t","e","m",","," ","i","n","d","e","x",")"," ","i","n"," ">> \o E)  \* wx:for  v-for  (item, index) in 
          /\ n = <<"w","x",":","k","e","y">> => res = Q(<<":","k","e","y">>, v)  \* wx:key  :key
          /\ n = <<"w","x",":","m","o","d","e","l">> => res = Q(<<"v","-","m","o","d","e","l">>, E)  \* wx:model  v-model
          /\ n \in {<<"b","i","n","d","t","a","p">>, <<"c","a","t","c","h","t","a","p">>, <<"@","t","a","p">>} =>  \* bindtap  catchtap  @tap
                res = Q(<<"@","c","l","i","c","k">>, v)  \* @click
          /\ n \notin ExactDirectiveNames /\ StartsWith(n, <<"b","i","n","d">>) =>  \* bind
                res = Q(<<"@">> \o SubSeq(n, 5, Len(n)), v)
          /\ n \notin ExactDirectiveNames /\ StartsWith(n, <<"c","a","t","c","h">>) =>  \* catch
                res = Q(<<"@">> \o SubSeq(n, 6, Len(n)) \o <<".","s","t","o","p">>, v)  \* .stop
          /\ n \notin ExactDirectiveNames /\ ~StartsWith(n, <<"b","i","n","d">>)  \* bind
                /\ ~StartsWith(n, <<"c","a","t","c","h">>) => res = Q(n, v)  \* catch

\* C5 witness: a capturing directive other than catchtap has been converted,
\* with its value kept as it was written
C5_Witness ==
    /\ fn = "convertDirective"
    /\ arg.name = <<"c","a","t","c","h","t","o","u","c","h","m","o","v","e">>  \* catchtouchmove
    /\ arg.value = <<"{","{"," ","a"," ","}","}">>  \* {{ a }}
    /\ res = <<"@","t","o","u","c","h","m","o","v","e",".","s","t","o","p","=","\"","{","{"," ","a"," ","}","}","\"">>  \* @touchmove.stop="{{ a }}"

-----------------------------------------------------------------------------
(* C6 *)

\* one line of output at an indent level
Line(level, content) ==
    [i \in 1..(level * indentSize) |-> " "] \o content \o <<"\n">>

\* what the claim makes of a forest: the text, and the indent level after it
RECURSIVE RenderNode(_, _), RenderNodes(_, _, _)
RenderNode(n, level) ==
    IF n.type = "element"
    THEN LET inner == RenderNodes(n.children, 1,
                        [text |-> Line(level, StartTagText(n)),
                         level |-> IF WritesSelfClosing(n) THEN level
                                   ELSE level + 1])
         IN  IF n.children # <<>>
             THEN [text |-> inner.text
                            \o Line(inner.level - 1, EndTagText(n)),
                   level |-> inner.level - 1]
             ELSE inner
    ELSE IF n.type = "comment"
    THEN [text |-> Line(level, CommentText(n)), level |-> level]
    ELSE [text |-> Line(level, Trim(n.content)), level |-> level]
RenderNodes(ns, i, sofar) ==
    IF i > Len(ns) THEN sofar
    ELSE RenderNodes(ns, i + 1,
            [text |-> sofar.text \o RenderNode(ns[i], sofar.level).text,
             level |-> RenderNode(ns[i], sofar.level).level])

\* the text that a step has added to the output
Written == SubSeq(output', Len(output) + 1, Len(output'))

\* C6: entering an element writes one open tag, on a line of its own, in
\* the " />" form exactly when the element has no children and its mapped
\* name is a void tag, and otherwise ending in ">" with the indent level
\* raised by one; leaving an element writes the close tag of the mapped
\* name, one indent level lower, exactly when the element has a child;
\* nothing else changes the indent level; and the whole output is, for
\* each element, its open tag, the output of its children, and then, if it
\* has children, its close tag.
C6_ElementTags ==
    /\ [][HasNext /\ NextNode.type = "element" =>
            LET void == /\ NextNode.children = <<>>
                        /\ isSelfClosingTag(convertTagName(NextNode.name))
            IN  /\ IsPrefix(output, output')
                /\ StartsWith(Written,
                     [i \in 1..(indentSize * indentLevel) |-> " "]
                     \o <<"<">> \o convertTagName(NextNode.name))
                /\ Count(Written, "\n") = 1
                /\ (EndsWith(Written, <<" ","/",">">> \o <<"\n">>) <=> void)  \*  />
                /\ EndsWith(Written, <<">">> \o <<"\n">>)
                /\ indentLevel' = IF void THEN indentLevel
                                  ELSE indentLevel + 1]_vars
    /\ [][AtExit =>
            IF Top.node.type = "element" /\ Top.node.children # <<>>
            THEN /\ indentLevel' = indentLevel - 1
                 /\ output' = output
                      \o [i \in 1..(indentSize * indentLevel') |-> " "]
                      \o <<"<","/">> \o convertTagName(Top.node.name)  \* </
                      \o <<">">> \o <<"\n">>
            ELSE output' = output /\ indentLevel' = indentLevel]_vars
    /\ [][~(HasNext /\ NextNode.type = "element") /\ ~AtExit =>
            indentLevel' = indentLevel]_vars
    /\ [](cpc = "returned" =>
            converted = Trim(RenderNodes(ast, 1,
                                         [text |-> <<>>, level |-> 0]).text))

\* C6 witness: a converted element with two element children, the first
\* written in the self-closing form and the second not
C6_Witness ==
    /\ cpc = "returned"
    /\ Len(ast) = 1 /\ Len(ast[1].children) = 2
    /\ ast[1].name = <<"v","i","e","w">>  \* view
    /\ ast[1].children[1].name = <<"i","m","a","g","e">>  \* image
    /\ ast[1].children[2].name = <<"p">>
    /\ StartsWith(converted, <<"<","d","i","v",">">>)  \* <div>
    /\ EndsWith(converted, <<"<","/","d","i","v",">">>)  \* </div>

-----------------------------------------------------------------------------
(* C7 *)

\* the names that attrMapping maps to the empty string
EmptyMappedNames ==
    {attrMapping[i].key : i \in {j \in 1..Len(attrMapping) :
                                    attrMapping[j].value = <<>>}}

\* C7 as stated: a plain attribute whose name attrMapping maps to the empty
\* string is dropped, convertAttribute giving the empty text that
\* convertAttributes leaves out of the open tag; a plain attribute whose
\* name has no entry in attrMapping is written as name="value".
C7_EmptyMappedDropped ==
    fn = "convertAttribute" =>
        /\ arg.name \in EmptyMappedNames => res = <<>>
        /\ ~ObjHas(attrMapping, arg.name) =>
              res = arg.name \o <<"=", "\"">> \o arg.value \o <<"\"">>  \* ="

-----------------------------------------------------------------------------
(* C8 *)

\* r is s without the whitespace at its two ends
IsTrimOf(r, s) ==
    \E i \in 0..Len(s), j \in 0..Len(s) :
        /\ i + j <= Len(s)
        /\ r = SubSeq(s, i + 1, Len(s) - j)
        /\ \A k \in 1..i : IsWhitespace(s[k])
        /\ \A k \in (Len(s) - j + 1)..Len(s) : IsWhitespace(s[k])
        /\ r # <<>> => ~IsWhitespace(r[1]) /\ ~IsWhitespace(r[Len(r)])

\* C8: convertExpression of a value that starts with {{ and ends with }} is
\* the value without its first two and its last two characters and without
\* the whitespace around what is left; of any other value it is the value.
C8_ExpressionUnwrapped ==
    fn = "convertExpression" =>
      LET v == arg.value
      IN  IF /\ Len(v) >= 2
             /\ v[1] = "{" /\ v[2] = "{"
             /\ v[Len(v) - 1] = "}" /\ v[Len(v)] = "}"
          THEN IsTrimOf(res, [i \in 1..(Len(v) - 4) |-> v[i + 2]])
          ELSE res = v

\* C8 witness: a value in double braces with whitespace inside them has
\* been unwrapped
C8_Witness ==
    /\ fn = "convertExpression"
    /\ arg.value = <<"{","{"," ","a","}","}">>  \* {{ a}}
    /\ res = <<"a">>

-----------------------------------------------------------------------------
(* C9 *)

\* C9 as stated: a comment closed by "-->" that is alone in its template is
\* written as it is, so that parsing the converted text gives one Comment
\* node with the same content.
C9_CommentRoundTrip ==
    /\ round = 2 /\ pc = "done"
    /\ Len(first) = 1 /\ first[1].type = "comment"
    /\ first[1].position.end - first[1].position.start
          = Len(first[1].content) + Len(<<"!","-","-","-","-",">">>)  \* !---->
    => /\ Len(ast) = 1
       /\ ast[1].type = "comment"
       /\ ast[1].content = first[1].content

-----------------------------------------------------------------------------
(* C10 *)

\* C10 as stated: convertTagName returns a tag name that is not a key of
\* tagMapping as it is, and applying it to its own result changes nothing.
C10_TagNameMapping ==
    fn = "convertTagName" =>
        /\ ~ObjHas(tagMapping, arg.name) => res = arg.name
        /\ convertTagName(res) = res

-----------------------------------------------------------------------------
(* C11 *)

RECURSIVE PlacesIn(_, _)
PlacesIn(nodes, above) ==
    UNION {{Append(above, i)} \cup PlacesIn(nodes[i].children, Append(above, i)) :
              i \in 1..Len(nodes)}

\* the places of the nodes of the forest
Places == PlacesIn(ast, <<>>)

RECURSIVE NodeIn(_, _)
NodeIn(nodes, place) ==
    IF Len(place) = 1 THEN nodes[place[1]]
    ELSE NodeIn(nodes[place[1]].children, Tail(place))

NodeAt(place) == NodeIn(ast, place)

ParentOf(place) ==
    IF Len(place) = 1 THEN undefined
    ELSE NodeAt(SubSeq(place, 1, Len(place) - 1))

\* q is below p
Below(p, q) == Len(p) < Len(q) /\ SubSeq(q, 1, Len(p)) = p

\* p and q have the same parent, or are both top-level, and p is listed first
ListedBefore(p, q) ==
    /\ Len(p) = Len(q)
    /\ SubSeq(p, 1, Len(p) - 1) = SubSeq(q, 1, Len(q) - 1)
    /\ p[Len(p)] < q[Len(q)]

CallsOf(callback, place) ==
    {i \in 1..Len(calls) :
        calls[i].callback = callback /\ calls[i].place = place}

\* every node has received each callback the visitor has exactly once
EachNodeOnce ==
    /\ \A i \in 1..Len(calls) : calls[i].place \in Places
    /\ \A p \in Places :
        /\ Cardinality(CallsOf("enter", p)) = (IF visitor.enter THEN 1 ELSE 0)
        /\ Cardinality(CallsOf("exit", p)) = (IF visitor.exit THEN 1 ELSE 0)

-----------------------------------------------------------------------------
(* C12 *)

RECURSIVE ElementsIn(_)
ElementsIn(nodes) ==
    UNION {(IF nodes[i].type = "element" THEN {nodes[i]} ELSE {})
               \cup ElementsIn(nodes[i].children) : i \in 1..Len(nodes)}

\* the elements of the forest that parse has returned
ParsedElements == IF pc = "done" THEN ElementsIn(ast) ELSE {}

DirectivePrefixes == {<<"w","x",":">>, <<"@">>, <<"b","i","n","d">>, <<"c","a","t","c","h">>}

HasDirectivePrefix(n) == \E p \in DirectivePrefixes : StartsWith(n, p)

Keys(obj) == {obj[i].key : i \in 1..Len(obj)}

\* C12 as stated: in every element that parse returns, an attribute whose
\* name starts with wx:, @, bind or catch has an entry in directives and
\* none in props, every other attribute has an entry in props and none in
\* directives, and the two maps have no key in common
C12_ClassifiedOnce ==
    \A e \in ParsedElements :
        /\ \A i \in 1..Len(e.attributes.attributesAll) :
              LET n == e.attributes.attributesAll[i].name
              IN  IF HasDirectivePrefix(n)
                  THEN /\ n \in Keys(e.attributes.directives)
                       /\ n \notin Keys(e.attributes.props)
                  ELSE /\ n \in Keys(e.attributes.props)
                       /\ n \notin Keys(e.attributes.directives)
        /\ Keys(e.attributes.props) \cap Keys(e.attributes.directives) = {}

-----------------------------------------------------------------------------
(* C13 *)

\* the number of attributes written on the one tag of an input of
\* AttributeInputs: each is written after one space
AttributesWritten == Count(input, " ")

EntryCount(e) == Len(e.attributes.props) + Len(e.attributes.directives)

NamesWritten(e) ==
    {e.attributes.attributesAll[i].name :
        i \in 1..Len(e.attributes.attributesAll)}

-----------------------------------------------------------------------------
(* C14 *)

\* sub is written somewhere in s
WrittenIn(s, sub) ==
    \E i \in 0..(Len(s) - Len(sub)) : SubSeq(s, i + 1, i + Len(sub)) = sub

\* C14 as stated: when the directive bindtap.stop="h" is written on the tag
\* of the input, parse returns an element whose directives have an entry
\* keyed bindtap, with the value written and the modifiers list [stop]
C14_ModifiersSplit ==
    (pc = "done" /\ input \in AttributeInputs
         /\ WrittenIn(input, <<" ","b","i","n","d","t","a","p",".","s","t","o","p","=","\"","h","\"">>))
        => \E e \in ParsedElements :
              /\ <<"b","i","n","d","t","a","p">> \in Keys(e.attributes.directives)
              /\ ObjGet(e.attributes.directives, <<"b","i","n","d","t","a","p">>) =
                     [value |-> <<"h">>, modifiers |-> <<<<"s","t","o","p">>>>]

-----------------------------------------------------------------------------
(* C15 *)

\* the nodes of a forest in the order in which parse begins them
RECURSIVE ParseOrder(_)
ParseOrder(nodes) ==
    IF nodes = <<>> THEN <<>>
    ELSE <<Head(nodes)>> \o ParseOrder(Head(nodes).children)
         \o ParseOrder(Tail(nodes))

NoOverlap(nodes) ==
    \A i, j \in 1..Len(nodes) :
        i < j => nodes[i].position.end <= nodes[j].position.start

\* C15: among the nodes that parse has delivered, every span has
\* start <= end, the starts do not decrease in parse order, and of two
\* siblings (two top-level nodes, or two children of one element) the
\* earlier ends before the later starts
C15_SpansOrdered ==
    LET order == ParseOrder(ast)
    IN  /\ \A i \in 1..Len(order) :
              /\ order[i].position.start <= order[i].position.end
              /\ order[i].position.end <= Len(input)
              /\ NoOverlap(order[i].children)
        /\ \A i \in 1..(Len(order) - 1) :
              order[i].position.start <= order[i + 1].position.start
        /\ NoOverlap(ast)

\* C15 witness: parse has returned an element that holds a text and, after
\* it, an element that starts where the text ends
C15_Witness ==
    /\ pc = "done" /\ Len(ast) = 1
    /\ Len(ast[1].children) = 2
    /\ ast[1].children[1].type = "text"
    /\ ast[1].children[2].type = "element"
    /\ ast[1].children[1].position.start = ast[1].position.end
    /\ ast[1].children[2].position.start = ast[1].children[1].position.end

-----------------------------------------------------------------------------
(* C16 *)

\* C16 as stated: the call of the annotator leaves the forest it is given
\* as it was, props, directives and ordered attribute lists included
C16_InputUnchanged == [][addRefAndConvertToString => ast' = ast]_vars

-----------------------------------------------------------------------------
(* C17 *)

\* the 1-based rank of child i among the element children
ElementRank(children, i) ==
    Cardinality({j \in 1..i : children[j].type = "element"})

\* the path of the claim: 1 at top level, else the parent's path, a dash,
\* and the rank of the node among the element children of its parent
RECURSIVE RankPath(_, _)
RankPath(forest, place) ==
    IF Len(place) = 1 THEN <<"1">>
    ELSE LET above == SubSeq(place, 1, Len(place) - 1)
         IN  RankPath(forest, above) \o <<"-">>
             \o NumberText(ElementRank(NodeIn(forest, above).children,
                                       place[Len(place)]))

\* C17 as stated: in the forest that annotate returns, the wx:ref of every
\* element is devtools_<path>_<tag name>, the path being 1 at top level and
\* <parent's path>-<k> below, k the rank among the element children
C17_PathsByElementRank ==
    (apc = "serialized" /\ round = 1) =>
        \A p \in PlacesIn(annotated, <<>>) :
            LET n == NodeIn(annotated, p)
            IN  n.type = "element" =>
                  /\ refName \in Keys(n.attributes.props)
                  /\ ObjGet(n.attributes.props, refName) =
                         refValue(RankPath(annotated, p), n.name)

\* 1 at top level, else the parent's path, a dash, and the 1-based index of
\* the node among all the children of its parent
RECURSIVE IndexPath(_)
IndexPath(place) ==
    IF Len(place) = 1 THEN <<"1">>
    ELSE IndexPath(SubSeq(place, 1, Len(place) - 1)) \o <<"-">>
         \o NumberText(place[Len(place)])

\* C17: in the forest that annotate returns, the wx:ref of every element, in
\* props and in the ordered list, is devtools_<path>_<tag name>, the path
\* being 1 at top level and <parent's path>-<k> below, k the 1-based index
\* of the element among all the children of its parent, texts and comments
\* counted; nodes that are not elements are returned as they were
C17_PathsByIndex ==
    (apc = "serialized" /\ round = 1) =>
        /\ PlacesIn(annotated, <<>>) = Places
        /\ \A p \in Places :
            LET n == NodeIn(annotated, p)
            IN  IF n.type = "element"
                THEN /\ n.name = NodeAt(p).name
                     /\ refName \in Keys(n.attributes.props)
                     /\ ObjGet(n.attributes.props, refName) =
                            refValue(IndexPath(p), n.name)
                     /\ \E i \in 1..Len(n.attributes.attributesAll) :
                           /\ n.attributes.attributesAll[i].name = refName
                           /\ n.attributes.attributesAll[i].value =
                                  refValue(IndexPath(p), n.name)
                ELSE n = NodeAt(p)

\* C17 witness: annotate has returned an element whose second child, after a
\* text, is an element: its identifier is devtools_1-2_a
C17_Witness ==
    /\ apc = "serialized" /\ round = 1
    /\ Len(annotated) = 1 /\ Len(annotated[1].children) >= 2
    /\ annotated[1].children[1].type = "text"
    /\ annotated[1].children[2].type = "element"
    /\ ObjGet(annotated[1].children[2].attributes.props, refName) =
           <<"d","e","v","t","o","o","l","s","_","1","-","2","_","a">>

-----------------------------------------------------------------------------
(* C18 *)

RefEntries(all) == {i \in 1..Len(all) : all[i].name = refName}

\* C18 as stated: in the forest that annotate returns, an element that had
\* no wx:ref in its ordered list has exactly one, an element that had some
\* has no more than before, and wx:ref has the new identifier in props and
\* in every place of the element where the attribute is kept: no entry of
\* the ordered list, no directive of such an entry and no entry of
\* directives holds another value for it
C18_RefReplaced ==
    (apc = "serialized" /\ round = 1) =>
        \A p \in Places :
            LET n == NodeIn(annotated, p)
                all == n.attributes.attributesAll
                before == RefEntries(NodeAt(p).attributes.attributesAll)
                id == ObjGet(n.attributes.props, refName)
            IN  n.type = "element" =>
                  /\ Cardinality(RefEntries(all)) =
                         (IF before = {} THEN 1 ELSE Cardinality(before))
                  /\ \A i \in RefEntries(all) :
                        /\ all[i].value = id
                        /\ all[i].directive.value = id
                  /\ refName \in Keys(n.attributes.directives)
                        => ObjGet(n.attributes.directives, refName).value = id

-----------------------------------------------------------------------------
(* C19 *)

\* the name/value pairs of an ordered attribute list, in its order, the
\* identifier attribute of the annotator left out
RECURSIVE PairsFrom(_, _)
PairsFrom(all, i) ==
    IF i > Len(all) THEN <<>>
    ELSE (IF all[i].name = refName THEN <<>>
          ELSE <<[name |-> all[i].name, value |-> all[i].value]>>)
         \o PairsFrom(all, i + 1)

Pairs(e) == PairsFrom(e.attributes.attributesAll, 1)

\* the forest of a markup made of elements without content and no text
OnlyEmptyElements(forest) ==
    /\ forest # <<>>
    /\ \A i \in 1..Len(forest) :
          forest[i].type = "element" /\ forest[i].children = <<>>

\* C19 as stated: when the markup parsed first is made of elements without
\* content, the text that the annotator's serializer returns for its forest
\* parses to the same elements: same tag names, and on each the same
\* attribute name/value pairs in the same order
C19_SerializeRoundTrip ==
    (round = 2 /\ pc = "done" /\ apc = "serialized"
         /\ OnlyEmptyElements(first))
        => /\ Len(ast) = Len(first)
           /\ \A i \in 1..Len(first) :
                 /\ ast[i].type = "element"
                 /\ ast[i].name = first[i].name
                 /\ Pairs(ast[i]) = Pairs(first[i])

-----------------------------------------------------------------------------
(* C20 *)

\* the two calls have returned a second time, having run in turn
BothInTurn ==
    /\ returned # <<>> /\ running = 2
    /\ cpc = "returned" /\ parked.cpc = "returned"

\* C20: whatever the order in which the steps of two calls on different
\* templates were interleaved, each call has returned what it returns when
\* the two run one after the other
C20_CallsIndependent ==
    BothInTurn =>
        /\ returned[1] = Result(parked)
        /\ returned[2] = Result(Own)

\* C20 witness: two calls that write different texts have returned, both
\* interleaved and in turn
C20_Witness ==
    /\ BothInTurn
    /\ returned[1].converted # <<>> /\ returned[2].converted # <<>>
    /\ returned[1].converted # returned[2].converted
    /\ returned[1].errors # <<>>

-----------------------------------------------------------------------------
(* C21 *)

\* the characters of s from offset from (0-based) up to, and not
\* including, the first "-->" at or after it; up to the end where there is
\* none
RECURSIVE UpToCommentEnd(_, _)
UpToCommentEnd(s, from) ==
    IF from >= Len(s) THEN <<>>
    ELSE IF from + 3 <= Len(s) /\ SubSeq(s, from + 1, from + 3) = <<"-","-",">">>
    THEN <<>>
    ELSE <<s[from + 1]>> \o UpToCommentEnd(s, from + 1)

\* parseComment returns to the loop that called it
CommentReturns == pc = "comment" /\ pc' = "loop"

\* C21: the comment node that parseComment returns starts at the "!" of
\* "<!--", its content is exactly the characters after "<!--" up to the
\* first "-->" that follows, or up to end-of-input where none follows, and
\* returning it records no error
C21_CommentContent ==
    [][CommentReturns =>
        /\ node'.type = "comment"
        /\ SubSeq(input, node'.position.start, node'.position.start + 3)
              = <<"<","!","-","-">>
        /\ node'.content = UpToCommentEnd(input, node'.position.start + 3)
        /\ node'.position.end
              = IF Len(node'.content) + node'.position.start + 3 < Len(input)
                THEN node'.position.start + 3 + Len(node'.content) + 3
                ELSE Len(input)
        /\ errors' = errors]_vars

\* C21 witness: an unterminated comment whose content is white space and a
\* dash has been returned at end-of-input, with no error recorded
C21_Witness ==
    /\ pc = "done"
    /\ Len(ast) = 1 /\ ast[1].type = "comment"
    /\ ast[1].content = <<"\n", "-", "\n">>
    /\ ast[1].position.end = Len(input)
    /\ errors = <<>>

-----------------------------------------------------------------------------
(* C22 *)

\* the characters of s from offset from (0-based) up to, and not
\* including, the next "<"; up to the end where there is none
RECURSIVE UpToLt(_, _)
UpToLt(s, from) ==
    IF from >= Len(s) \/ s[from + 1] = "<" THEN <<>>
    ELSE <<s[from + 1]>> \o UpToLt(s, from + 1)

\* parseText begins, called by a loop whose cursor was at lexer
TextBegins == pc = "loop" /\ pc' = "text"

\* parseText returns to the loop that called it
TextReturns == pc = "text" /\ pc' = "loop"

\* C22: the loops skip white space before they call parseText, so a run
\* made only of white space reaches no parseText and yields no node; any
\* other run yields one Text node that begins at the first character of
\* the run that is not white space and whose content is every character
\* from there up to the next "<" or end-of-input, trailing white space
\* kept
C22_TextFromFirstVisible ==
    [][/\ TextBegins =>
            /\ \A i \in (lexer.position + 1)..startPos'.position :
                  IsWhitespace(input[i])
            /\ ~IsWhitespace(input[startPos'.position + 1])
       /\ TextReturns =>
            /\ node'.type = "text"
            /\ node'.position.start = startPos.position
            /\ node'.content = UpToLt(input, node'.position.start)
            /\ node'.position.end
                  = node'.position.start + Len(node'.content)
            /\ Trim(node'.content) # <<>>]_vars

\* C22 as stated: the Text node holds the whole run, so that it begins
\* where the run begins: at the start of the input or right after a
\* character that is not white space
C22_RunPreserved ==
    node.type = "text" =>
        \/ node.position.start = 0
        \/ ~IsWhitespace(input[node.position.start])

\* C22 witness: a run with white space on both sides has yielded a Text
\* node without the white space before it and with the white space after it
C22_Witness ==
    /\ pc = "loop" /\ node.type = "text"
    /\ node.position.start > 0
    /\ IsWhitespace(input[node.position.start])
    /\ IsWhitespace(node.content[Len(node.content)])
    /\ node.position.end = Len(input)

-----------------------------------------------------------------------------
(* C23 *)

\* the number of characters of s after its last newline
SinceNewline(s) ==
    Len(s) - (IF \E i \in 1..Len(s) : s[i] = "\n"
              THEN CHOOSE i \in 1..Len(s) :
                      /\ s[i] = "\n"
                      /\ \A j \in (i + 1)..Len(s) : s[j] # "\n"
              ELSE 0)

\* the cursor agrees with the characters consumed so far
Tracked ==
    /\ lexer.position = Len(acc)
    /\ lexer.line = 1 + Count(acc, "\n")
    /\ lexer.column = 1 + SinceNewline(acc)

\* C23: after any sequence of scanner operations, those called at
\* end-of-input included, the offset is the number of characters consumed,
\* the line is 1 plus the number of newlines consumed and the column is 1
\* plus the number of characters consumed since the last newline
C23_PositionTracked == Tracked

-----------------------------------------------------------------------------
(* C24 *)

\* how many times sub is written in s
Occurrences(s, sub) ==
    Cardinality({i \in 1..(Len(s) - Len(sub) + 1) :
                    SubSeq(s, i, i + Len(sub) - 1) = sub})

\* the open tags of s written in the ">" form, and its close tags
OpenTagsWritten(s) ==
    Count(s, "<") - Occurrences(s, <<"<","/">>) - Occurrences(s, <<"<","!">>)
        - Occurrences(s, <<" ","/",">">>)
CloseTagsWritten(s) == Occurrences(s, <<"<","/">>)

\* C24: the indent level is never negative during convert, and when
\* convert returns every open tag written in the ">" form has its close
\* tag and the indent level is 0 again
C24_TagsBalanced ==
    /\ indentLevel >= 0
    /\ cpc = "returned" =>
          /\ indentLevel = 0
          /\ OpenTagsWritten(output) = CloseTagsWritten(output)

-----------------------------------------------------------------------------
(* C25 *)

\* the loop of parse, where no element is open, meets "</"
TopLevelEndTag ==
    /\ pc = "loop" /\ stack = <<>>
    /\ current(LoopCursor) = "<" /\ peek(LoopCursor, 1) = "/"

\* parseText returns a text that began right after the "<" of a "</" met
\* at top level
TextAfterTopLevelEndTag ==
    /\ TextReturns /\ stack = <<>>
    /\ startPos.position > 0
    /\ input[startPos.position] = "<"
    /\ input[startPos.position + 1] = "/"

\* C25: a close tag met at top level records no error and adds no node:
\* the cursor is left right after its "<"; what follows, from the "/" up
\* to the next "<" or end-of-input, is then returned as one top-level Text
\* node, again without an error
C25_DanglingEndTagIsText ==
    [][/\ TopLevelEndTag =>
            /\ errors' = errors /\ ast' = ast /\ stack' = <<>>
            /\ node' = NullNode /\ pc' = "loop"
            /\ lexer'.position = LoopCursor.position + 1
       /\ TextAfterTopLevelEndTag =>
            /\ errors' = errors
            /\ ast' = Append(ast, node') /\ node'.type = "text"
            /\ node'.position.start = startPos.position
            /\ node'.content = UpToLt(input, startPos.position)
            /\ node'.content[1] = "/"]_vars

\* C25 witness: the input is one close tag, and parse has returned one
\* Text node that holds it without its "<", and no error
C25_Witness ==
    /\ pc = "done" /\ errors = <<>>
    /\ input = <<"<","/","a",">">>
    /\ Len(ast) = 1 /\ ast[1].type = "text"
    /\ ast[1].content = <<"/","a",">">>
    /\ ast[1].position.start = 1

-----------------------------------------------------------------------------
(* C26 *)

\* the loop of parseChildren finds the end of the input
OpenAtEOF == pc = "loop" /\ stack # <<>> /\ isEOF(skipWhitespace(lexer))

\* C26: when end-of-input is reached inside open elements, the innermost
\* one is returned as it is, with the children collected so far, to its
\* parent's list of children, or to the result where it has no parent,
\* and no error is recorded; its parent is then the innermost open element
\* and the same holds for it
C26_OpenElementReturned ==
    [][OpenAtEOF =>
        /\ errors' = errors
        /\ node' = stack[Len(stack)]
        /\ node'.type = "element"
        /\ pc' = "loop" /\ isEOF(lexer')
        /\ Len(stack') = Len(stack) - 1
        /\ IF Len(stack) = 1
           THEN ast' = Append(ast, node')
           ELSE /\ ast' = ast
                /\ stack'[Len(stack')].children
                      = Append(stack[Len(stack) - 1].children, node')
                /\ \A i \in 1..(Len(stack) - 2) : stack'[i] = stack[i]]_vars

\* C26 witness: two elements were open at end-of-input; parse has returned
\* the outer one with its text and the inner one as children, and no error
C26_Witness ==
    /\ pc = "done" /\ errors = <<>>
    /\ input = <<"<","a",">","t"," ","<","b",">">>
    /\ Len(ast) = 1 /\ ast[1].name = <<"a">>
    /\ Len(ast[1].children) = 2
    /\ ast[1].children[1].type = "text"
    /\ ast[1].children[2].name = <<"b">>
    /\ ast[1].children[2].children = <<>>

-----------------------------------------------------------------------------
(* C27 *)

\* the kinds of the nodes of a forest that the serializer is to write, in
\* document order: every element, every comment, every text that is not
\* blank
RECURSIVE KindsIn(_)
KindsIn(ns) ==
    IF ns = <<>> THEN <<>>
    ELSE LET n == ns[1]
             own == IF n.type = "text" /\ Trim(n.content) = <<>> THEN <<>>
                    ELSE <<n.type>>
         IN own \o KindsIn(n.children) \o KindsIn(Tail(ns))

\* what is written at place i of the text s: the "<!--" of a comment, the
\* "<" of an open tag, the first character of a text (one that follows a
\* ">", a line end or another text, or begins s), or none of these
KindAt(s, i) ==
    IF i + 3 <= Len(s) /\ SubSeq(s, i, i + 3) = <<"<","!","-","-">>
    THEN "comment"
    ELSE IF s[i] = "<" /\ i < Len(s) /\ s[i + 1] \notin {"/", "!"}
    THEN "element"
    ELSE IF s[i] = "t" /\ (i = 1 \/ s[i - 1] \in {">", "\n", "t"})
    THEN "text"
    ELSE "none"

IsKind(k) == k # "none"

\* the kinds written in s, in the order of the text
KindsWritten(s) == SelectSeq([i \in 1..Len(s) |-> KindAt(s, i)], IsKind)

\* C27: when addRefAndConvertToString has returned, every element, every
\* comment and every text that is not blank of the annotated forest is
\* written in the text returned, in document order
C27_EveryNodeWritten ==
    apc = "serialized" =>
        KindsWritten(serialized) = KindsIn(annotated)

-----------------------------------------------------------------------------
(* C28 *)

\* the identifier that annotate has given to the element at a place of the
\* forest it returned
IdentifierAt(place) ==
    ObjGet(NodeIn(annotated, place).attributes.props, refName)

\* the places of the elements of the annotated forest
ElementPlaces ==
    {p \in PlacesIn(annotated, <<>>) : NodeIn(annotated, p).type = "element"}

\* C28: in the forest that annotate returns, two elements at different
\* places never have the same identifier
C28_IdentifiersDistinct ==
    (apc = "serialized" /\ round = 1) =>
        \A p, q \in ElementPlaces :
            p # q => IdentifierAt(p) # IdentifierAt(q)

-----------------------------------------------------------------------------
(* C29 *)

\* addRef is called on what addRef returned
AnnotatedAgain == apc = "serialized" /\ apc' = "twice"

\* C29: addRef applied to the forest that addRef returned for a parsed
\* forest returns an equal forest (the same nodes, props and ordered
\* attribute lists), its serialization is the same text, and the forest
\* first given is not changed by the second call
C29_AnnotateIdempotent ==
    [][AnnotatedAgain =>
        /\ annotated' = annotated
        /\ serialized' = serialized
        /\ ast' = ast]_vars

\* C29 witness: addRef has run twice on an element on which wx:ref was
\* written twice, next to another attribute
C29_Witness ==
    /\ apc = "twice"
    /\ Len(annotated) = 1
    /\ Len(annotated[1].attributes.attributesAll) = 2
    /\ Cardinality(RefEntries(annotated[1].attributes.attributesAll)) = 2
    /\ serialized # <<>>

-----------------------------------------------------------------------------
(* C30 *)

\* the numbers of a set, in rising order
RECURSIVE Rising(_)
Rising(S) ==
    IF S = {} THEN <<>>
    ELSE LET m == CHOOSE x \in S : \A y \in S : x <= y
         IN  <<m>> \o Rising(S \ {m})

\* the places of the list where a name is written for the first time, on a
\* directive (d) or on a plain attribute
FirstWritten(attrs, d) ==
    Rising({i \in 1..Len(attrs) :
               /\ attrs[i].isDirective = d
               /\ \A j \in 1..(i - 1) : attrs[j].name # attrs[i].name})

\* the value that the name has where it is written last
LastValue(attrs, n) ==
    attrs[CHOOSE i \in 1..Len(attrs) :
             /\ attrs[i].name = n
             /\ \A j \in (i + 1)..Len(attrs) : attrs[j].name # n].value

\* the parts of the open tag as the claim has them: the plain attributes in
\* the order in which their names are first written, then the directives in
\* the order in which theirs are, each with the value written last
PartsInWrittenOrder(attrs) ==
    LET plain == FirstWritten(attrs, FALSE)
        dirs == FirstWritten(attrs, TRUE)
    IN  [k \in 1..Len(plain) |->
            convertAttribute(attrs[plain[k]].name,
                             LastValue(attrs, attrs[plain[k]].name))]
        \o [k \in 1..Len(dirs) |->
            convertDirective(attrs[dirs[k]].name,
                             [value |-> LastValue(attrs, attrs[dirs[k]].name),
                              modifiers |-> <<>>])]

\* C30: the attributes text of a converted open tag has every plain
\* attribute before every directive, the plain attributes in the order of
\* first occurrence of their names in the source, then the directives in
\* the order of first occurrence of theirs, each name once with the value
\* of its last occurrence
C30_WrittenOrderKept ==
    fn = "convertAttributes" =>
        res = Join(PartsInWrittenOrder(attributes), <<" ">>)

====
